---- MODULE Spec2Model ----
(***************************************************************************)
(* WinBins build orchestration: WinToolsUpdater (winbins/core.py) driving  *)
(* GitOperations (winbins/git_ops.py), the build backends                  *)
(* (winbins/builders) and the ToolRegistry (winbins/tools/registry.py).    *)
(*                                                                         *)
(* The host (search path, git, compilers, file system errors) is the       *)
(* environment: every probe of the search path and every external command  *)
(* draws its outcome nondeterministically, which is the behaviour of a     *)
(* host whose state may change between any two steps of the program.       *)
(***************************************************************************)
EXTENDS Naturals, Sequences, FiniteSets, TLC

\* Longest request list handed to update_all(tools=...).
MaxReq == 2

----------------------------------------------------------------------------
(* Data *)

\* Names a caller passes: a built-in tool, a tool defined by configuration,
\* and a name nobody defines.
Names == {"rubeus", "mytool", "nosuch"}

\* Branch arguments; "" stands for None (both are falsy for `if branch`).
Branches == {"", "dev"}

\* The built-in table TOOLS, represented by its first entry.
TOOLS_keys == <<"rubeus">>

TOOLS == [n \in {"rubeus"} |-> [requires |-> "msbuild"]]

\* Requirement identifiers a configuration may give to "mytool".
CustomRequires == {"", "make"}

\* Outcomes of starting an external command with subprocess.run.
RCs == {"zero", "nonzero", "missing"}

\* Outcomes of shutil.copy2.
CopyOutcomes == {"copied", "oserror", "vanished"}

\* Candidate artifact files of a working copy: the declared output path and
\* a file of the same base name somewhere else in the tree.
Paths == {"declared", "stray"}

----------------------------------------------------------------------------
(* Pure helpers *)

RECURSIVE IndexOf(_, _)
\* Position of key k in an insertion-ordered dict, 0 when absent.
IndexOf(d, k) ==
    IF d = <<>> THEN 0
    ELSE IF d[Len(d)].name = k /\ IndexOf(SubSeq(d, 1, Len(d) - 1), k) = 0
         THEN Len(d)
         ELSE IndexOf(SubSeq(d, 1, Len(d) - 1), k)

Keys(d) == [i \in 1..Len(d) |-> d[i].name]

KeySet(d) == {d[i].name : i \in 1..Len(d)}

\* d[k] = v of a Python dict: an existing key keeps its position.
DictSet(d, k, v) ==
    IF IndexOf(d, k) = 0
    THEN Append(d, [name |-> k, val |-> v])
    ELSE [d EXCEPT ![IndexOf(d, k)].val = v]

\* del d[k]
DictDel(d, k) == SelectSeq(d, LAMBDA e : e.name # k)

DictGet(d, k) == d[IndexOf(d, k)].val

RECURSIVE FromTOOLS(_)
FromTOOLS(ks) ==
    IF ks = <<>> THEN <<>>
    ELSE DictSet(FromTOOLS(SubSeq(ks, 1, Len(ks) - 1)),
                 ks[Len(ks)], TOOLS[ks[Len(ks)]])

\* ToolRegistry.list_tools
list_tools(reg) == Keys(reg)

\* A lookup that makes up a configuration for a name nobody defines.
ToolConfigOf_lenient(reg, name) ==
    IF name \in KeySet(reg)
    THEN [found |-> TRUE, requires |-> DictGet(reg, name).requires]
    ELSE IF name \in DOMAIN TOOLS
         THEN [found |-> TRUE, requires |-> TOOLS[name].requires]
         ELSE [found |-> TRUE, requires |-> ""]

\* The lookup at the head of update_tool: registry first, then TOOLS.
ToolConfigOf(reg, name) ==
    IF name \in KeySet(reg)
    THEN [found |-> TRUE, requires |-> DictGet(reg, name).requires]
    ELSE IF name \in DOMAIN TOOLS
         THEN [found |-> TRUE, requires |-> TOOLS[name].requires]
         ELSE [found |-> FALSE, requires |-> ""]

\* An update_all that takes the registry only when no list was given.
tools_to_update_is_none(r, reg) ==
    IF r.given THEN r.list ELSE list_tools(reg)

\* update_all: `tools if tools else self.registry.list_tools()`
tools_to_update(r, reg) ==
    IF r.given /\ r.list # <<>> THEN r.list ELSE list_tools(reg)

\* A check_dependencies that lets every tool through.
DependencyOk_always(required, found) == TRUE

\* A check_dependencies that wants a resolved executable from every tool.
DependencyOk_probed(required, found) == required # "" /\ found

\* check_dependencies: an empty requirement is not probed.
DependencyOk(required, found) == required = "" \/ found

\* The characters of the model in code-point order.
Alphabet ==
    <<".", "/",
      "A", "B", "C", "D", "E", "F", "G", "H", "I", "J", "K", "L", "M",
      "N", "O", "P", "Q", "R", "S", "T", "U", "V", "W", "X", "Y", "Z",
      "a", "b", "c", "d", "e", "f", "g", "h", "i", "j", "k", "l", "m",
      "n", "o", "p", "q", "r", "s", "t", "u", "v", "w", "x", "y", "z">>

Ord(c) == CHOOSE i \in 1..Len(Alphabet) : Alphabet[i] = c

\* str.lower, character by character
LowerChar(c) == IF Ord(c) \in 3..28 THEN Alphabet[Ord(c) + 26] ELSE c

LowerStr(s) == [i \in 1..Len(s) |-> LowerChar(s[i])]

\* The text of the identifiers of the model.
Spelling ==
    ("" :> <<>>) @@
    ("msbuild" :> <<"m", "s", "b", "u", "i", "l", "d">>) @@
    ("MSBUILD" :> <<"M", "S", "B", "U", "I", "L", "D">>) @@
    ("MsBuild" :> <<"M", "s", "B", "u", "i", "l", "d">>) @@
    ("MSBuild" :> <<"M", "S", "B", "u", "i", "l", "d">>) @@
    ("dotnet" :> <<"d", "o", "t", "n", "e", "t">>) @@
    ("DOTNET" :> <<"D", "O", "T", "N", "E", "T">>) @@
    ("DotNet" :> <<"D", "o", "t", "N", "e", "t">>) @@
    ("cmake" :> <<"c", "m", "a", "k", "e">>) @@
    ("CMake" :> <<"C", "M", "a", "k", "e">>) @@
    ("make" :> <<"m", "a", "k", "e">>) @@
    ("custom" :> <<"c", "u", "s", "t", "o", "m">>) @@
    ("unknown" :> <<"u", "n", "k", "n", "o", "w", "n">>)

Identifiers == DOMAIN Spelling

\* The identifier spelled by the lowered text of each identifier.
Lowered ==
    [s \in Identifiers |->
        CHOOSE t \in Identifiers : Spelling[t] = LowerStr(Spelling[s])]

\* A str.lower that leaves its argument as it is.
Lower_asis(s) == s

\* str.lower on an identifier: its text, lowered character by character.
Lower(s) == Lowered[s]

\* tools/base.py BuildSystem
BuildSystem == {"MSBUILD", "DOTNET", "CMAKE", "MAKE", "CUSTOM"}

\* Builder classes: the two built-in backends and one defined by a caller.
BuilderClasses == {"MSBuildBuilder", "DotNetBuilder", "CustomBuilder"}

\* BuilderFactory._builders as the class body defines it; "None" is a
\* build system without entry.
BuiltinBuilders ==
    [k \in BuildSystem |->
        CASE k = "MSBUILD" -> "MSBuildBuilder"
          [] k = "DOTNET" -> "DotNetBuilder"
          [] OTHER -> "None"]

\* BuilderFactory.create: _builders.get(build_system), None without entry.
create(b, k) == b[k]

\* The mapping of get_for_tool, looked up with requires.lower().
mapping(requires) ==
    CASE Lower(requires) = "msbuild" -> "MSBUILD"
      [] Lower(requires) = "dotnet" -> "DOTNET"
      [] OTHER -> "None"

\* BuilderFactory.get_for_tool: the builder class, "None" when there is none.
get_for_tool(b, requires) ==
    IF mapping(requires) = "None" THEN "None"
    ELSE create(b, mapping(requires))

\* Builder.executable
executable(builder) ==
    IF builder = "MSBuildBuilder" THEN "msbuild" ELSE "dotnet"

\* A _run_git that reports success whatever the exit status.
GitSuccess_any(rc) == TRUE

\* _run_git: success is exit status zero; a missing git is a failure.
GitSuccess(rc) == rc = "zero"

\* A clone_or_update that updates whatever directory exists.
UpdateExisting_exists(exists, isrepo) == exists

\* clone_or_update: `target_path.exists() and self.is_repo(target_path)`
UpdateExisting(exists, isrepo) == exists /\ isrepo

\* clone_or_update: target of the hard reset
ResetTarget(b) == IF b # "" THEN "origin/" \o b ELSE "origin/HEAD"

\* Builder.run_command / run_cmd: success of the build command
CommandOk(rc) == rc = "zero"

\* A build_tool that hands the build to every backend that resolves.
UseBuilder_resolved(builder, avail) == builder # "None"

\* build_tool: `if builder and builder.is_available()`
UseBuilder(builder, avail) == builder # "None" /\ avail

\* A copy that reports success whatever happened.
CopyOk_always(o) == TRUE

\* os.environ of the process: the search path and a compiler choice.
HostEnv == ("PATH" :> "/usr/bin") @@ ("CC" :> "gcc")

\* tool_config.get("env_vars", {}): the built-in tools declare none, the tool
\* defined by configuration sets a variable that the host sets too.
env_vars(name) == IF name = "mytool" THEN ("CC" :> "clang") ELSE <<>>

\* Builder.run_command: env = os.environ.copy(); env.update(self.env_vars)
RunCommandEnv(ev) == ev @@ HostEnv

\* WinToolsUpdater.run_cmd: subprocess.run without env inherits os.environ
RunCmdEnv(ev) == HostEnv

\* Builder.copy_artifact / shutil.copy2
CopyOk(o) == o = "copied"

RECURSIVE SeqsUpTo(_, _)
SeqsUpTo(S, n) ==
    IF n = 0 THEN {<<>>}
    ELSE SeqsUpTo(S, n - 1) \cup
         {Append(s, x) : s \in {t \in SeqsUpTo(S, n - 1) : Len(t) = n - 1}, x \in S}

Requests ==
    {[given |-> FALSE, list |-> <<>>]} \cup
    {[given |-> TRUE, list |-> l] : l \in SeqsUpTo(Names, MaxReq)}

----------------------------------------------------------------------------
(* State *)

VARIABLES
    registry,   \* updater.registry._tools: insertion-ordered name -> config
    wc,         \* build_dir/<name>: "absent", "plain" directory or "repo"
    art,        \* artifact candidates present in each working copy
    out,        \* names whose artifact lies in output_dir
    artc,       \* content of each declared artifact: the call that built it
    outc,       \* content of each file in output_dir, 0 when there is none
    pc,         \* position of the program
    req,        \* the tools argument of update_all
    branch,     \* the branch argument
    todo,       \* tools_to_update
    queue,      \* the part of tools_to_update still to iterate
    cur,        \* tool_name of the current update_tool call
    results,    \* the results dict of update_all
    runs,       \* history: update_tool calls finished in this batch
    retval,     \* what the current update_tool call returned
    cmds,       \* history: probes and commands of the current call
    stages,     \* history: pipeline stages of the current call
    pre,        \* file system at the start of the current call
    buildenv,   \* history: environment the build command of this call got
    events,     \* history: severities of the events logged in this call
    tool_path,  \* legacy script: the working copy handed to find_artifact
    matches,    \* legacy script: what tool_path.rglob(exe_name) yielded
    artifact,   \* legacy script: what find_artifact returned
    builders,   \* BuilderFactory._builders: build system -> builder class
    reglog,     \* history: the BuilderFactory.register calls, in order
    made,       \* the last call to BuilderFactory and what it returned
    repo,       \* retried sync: what git finds at build_dir/<name>
    rpc,        \* retried sync: position in GitOperations.clone_or_update
    crashes,    \* retried sync: abrupt terminations so far
    recovering, \* retried sync: no sync has succeeded since the last one
    gitlog,     \* retried sync: git commands of the current run
    before,     \* retried sync: the working copy as the current run found it
    since,      \* retried sync: the first sync result the remote still matches
    exitcode,   \* command line: what run_update returned, "none" before
    captured,   \* diagnostics: the lines the build command wrote
    diag,       \* diagnostics: what the failure outcome carries of them
    inst,       \* two instances: root, position and outcome of each
    tree,       \* two instances: the working copy of the tool under each root
    outdir,     \* two instances: the published artifact under each root
    regs,       \* registries: _tools of each ToolRegistry instance
    regcall,    \* registries: the last ToolRegistry call and its result
    loggers,    \* logging: the WinBinsLogger instances made so far
    default_logger, \* logging: _default_logger, 0 for None
    updater,    \* logging: the WinToolsUpdater built without a logger
    gets,       \* logging: what get_logger returned since the last set_logger
    logcall,    \* logging: the last call and the events it printed
    namegen,    \* names: min_length and max_length of the NameGenerator
    used_names, \* names: self._used_names
    gpc,        \* names: position in generate
    full_name,  \* names: the name drawn in the current iteration
    handed,     \* names: history of what generate returned since the reset
    fresh       \* names: no call has returned a name handed out before

vars == <<registry, wc, art, out, artc, outc, pc, req, branch, todo, queue, cur,
          results, runs, retval, cmds, stages, pre, buildenv, events,
          tool_path, matches, artifact, builders, reglog, made,
          repo, rpc, crashes, recovering, gitlog, before, since,
          exitcode, captured, diag, inst, tree, outdir,
          regs, regcall, loggers, default_logger, updater, gets, logcall,
          namegen, used_names, gpc, full_name, handed, fresh>>

\* get_builder of builders/factory.py: BuilderFactory.get_for_tool
get_builder(requires) == get_for_tool(builders, requires)

\* State of the library functions that the pipeline of update_all leaves alone.
findvars == <<tool_path, matches, artifact>>

factoryvars == <<builders, reglog, made>>

recovervars == <<repo, rpc, crashes, recovering, gitlog, before, since>>

\* State of run_update around update_all.
clivars == <<exitcode>>

\* State of one build command and the diagnostics kept of it.
diagvars == <<captured, diag>>

\* State of two updaters that run side by side.
twovars == <<inst, tree, outdir>>

\* State of ToolRegistry instances looked at on their own.
regvars == <<regs, regcall>>

\* State of winbins.logging and of an updater that uses it.
logvars == <<loggers, default_logger, updater, gets, logcall>>

\* State of a NameGenerator.
genvars == <<namegen, used_names, gpc, full_name, handed, fresh>>

\* State of the classes that are looked at on their own.
auxvars == <<regvars, logvars, genvars>>

libvars == <<findvars, factoryvars, recovervars, clivars, diagvars, twovars,
            auxvars>>

fsvars == <<wc, art, out, artc, outc>>

batchvars == <<req, branch, todo, queue, cur, pre>>

\* Everything the pipeline of update_all reads or writes.
updatervars == <<registry, fsvars, pc, batchvars, results, runs, retval, cmds,
                 stages, buildenv, events, clivars>>

\* All that the library functions leave alone.
pipevars == <<updatervars, diagvars, twovars, auxvars>>

\* All that the classes looked at on their own leave alone.
oldvars == <<updatervars, findvars, factoryvars, recovervars, diagvars, twovars>>

Cfg == ToolConfigOf(registry, cur)

Cmd(op, arg, rc) == [op |-> op, arg |-> arg, rc |-> rc]

StartStage(s) == Append(stages, [stage |-> s, st |-> "running"])

EndStage(st) == [stages EXCEPT ![Len(stages)].st = st]

NextStage(s) == Append(EndStage("ok"), [stage |-> s, st |-> "running"])

\* Status of stage s in the current call, "none" when it was not started.
StageSt(s) ==
    IF \E i \in 1..Len(stages) : stages[i].stage = s
    THEN stages[CHOOSE i \in 1..Len(stages) : stages[i].stage = s].st
    ELSE "none"

\* An update_all that collects its results in a list.
StoreResult_append(res, name, v) == Append(res, [name |-> name, val |-> v])

\* update_all: results[tool_name] = success
StoreResult(res, name, v) == DictSet(res, name, v)

\* LogLevel
LogLevels == {"DEBUG", "INFO", "WARNING", "ERROR", "SUCCESS"}

\* A level map that knows the levels of progress messages only.
level_map_progress(level) ==
    IF level \in {"DEBUG", "INFO", "SUCCESS"} THEN level ELSE "INFO"

\* level_map.get(level, LogLevel.INFO) of WinToolsUpdater.log
level_map(level) == IF level \in LogLevels THEN level ELSE "INFO"

\* self.log(msg, level): the logger prints every level but DEBUG whatever
\* verbose is.
log(level) == Append(events, level_map(level))

\* The step of update_tool that ends the call with v: the lookup of the
\* name, the dependency check, a git command, the build or the copy.
FailureStage(v) ==
    IF v = "True" THEN "none"
    ELSE CASE pc = "update_tool" -> "unknown-tool"
           [] pc = "check_dependencies" -> "dependency"
           [] pc \in {"fetch", "reset", "clean", "clone"} -> "sync"
           [] pc \in {"builder_build", "run_cmd"} -> "build"
           [] pc \in {"copy_artifact", "copy2"} -> "publish"

\* An update_tool that returns the stage at which it failed.
Return_staged(v) ==
    /\ retval' = IF v = "True" THEN v ELSE FailureStage(v)
    /\ runs' = Append(runs, [name |-> cur, ret |-> retval',
                              synced |-> StageSt("sync") = "ok",
                              stage |-> FailureStage(v)])
    /\ results' = StoreResult(results, cur, retval')
    /\ pc' = "loop"

\* update_tool returns v to update_all, which stores results[tool_name];
\* the history keeps the step that ended the call next to what it returned.
Return(v) ==
    /\ retval' = v
    /\ runs' = Append(runs, [name |-> cur, ret |-> v,
                              synced |-> StageSt("sync") = "ok",
                              stage |-> FailureStage(v)])
    /\ results' = StoreResult(results, cur, v)
    /\ pc' = "loop"

\* An exception leaves update_tool and update_all; nothing is returned.
Raise ==
    /\ retval' = "raised"
    /\ runs' = Append(runs, [name |-> cur, ret |-> "raised",
                              synced |-> StageSt("sync") = "ok",
                              stage |-> FailureStage("raised")])
    /\ results' = results
    /\ pc' = "raised"

\* find_artifact has not been called.
FindUnused ==
    /\ tool_path = <<>>
    /\ matches = <<>>
    /\ artifact = [called |-> FALSE, path |-> <<>>]

\* BuilderFactory as the import of winbins.builders leaves it.
FactoryUnused ==
    /\ builders = BuiltinBuilders
    /\ reglog = <<>>
    /\ made = [fn |-> "none", arg |-> "", result |-> "None"]

\* A working copy that does not exist yet.
NoRepo ==
    [dir |-> "absent", gitdir |-> "none", lock |-> FALSE, refs |-> FALSE,
     tree |-> "none", untracked |-> FALSE, outer |-> "none"]

\* No sync has succeeded yet, or the remote moved on since.
NoSync == [valid |-> FALSE, repo |-> NoRepo]

\* No sync has been asked for.
RecoverUnused ==
    /\ repo = NoRepo
    /\ rpc = "start"
    /\ crashes = 0
    /\ recovering = FALSE
    /\ gitlog = <<>>
    /\ before = NoRepo
    /\ since = NoSync

\* run_update has not been called.
CliUnused == exitcode = "none"

\* No build command has been looked at on its own.
DiagUnused ==
    /\ captured = <<>>
    /\ diag = [by |-> "none", rc |-> "none", lines |-> <<>>]

\* No second updater runs.
TwoUnused ==
    /\ inst = <<>>
    /\ tree = <<>>
    /\ outdir = <<>>

\* No ToolRegistry is looked at on its own.
RegistryUnused ==
    /\ regs = <<>>
    /\ regcall = [fn |-> "none"]

\* winbins.logging as its import leaves it, and no updater built.
LoggerUnused ==
    /\ loggers = <<>>
    /\ default_logger = 0
    /\ updater = [built |-> FALSE, verbose |-> FALSE, logger |-> 0,
                  installed |-> FALSE]
    /\ gets = {}
    /\ logcall = [fn |-> "none", arg |-> "", ret |-> 0, emitted |-> <<>>,
                  before |-> <<>>]

\* No NameGenerator has been constructed.
GeneratorUnused ==
    /\ namegen = <<>>
    /\ used_names = {}
    /\ gpc = "none"
    /\ full_name = <<>>
    /\ handed = {}
    /\ fresh = TRUE

AuxUnused ==
    /\ RegistryUnused
    /\ LoggerUnused
    /\ GeneratorUnused

Init ==
    /\ AuxUnused
    /\ FindUnused
    /\ FactoryUnused
    /\ RecoverUnused
    /\ CliUnused
    /\ DiagUnused
    /\ TwoUnused
    /\ registry \in {FromTOOLS(TOOLS_keys), <<>>}
    /\ wc \in [Names -> {"absent", "plain", "repo"}]
    /\ wc["nosuch"] = "absent"
    /\ art = [n \in DOMAIN wc |-> {}]
    /\ out = {}
    /\ artc = [n \in DOMAIN wc |-> 0]
    /\ outc = [n \in DOMAIN wc |-> 0]
    /\ pc = "idle"
    /\ req = [given |-> FALSE, list |-> <<>>]
    /\ branch = ""
    /\ todo = <<>>
    /\ queue = <<>>
    /\ cur = "nosuch"
    /\ results = <<>>
    /\ runs = <<>>
    /\ retval = "none"
    /\ cmds = <<>>
    /\ stages = <<>>
    /\ pre = [wc |-> wc, art |-> art, out |-> out, outc |-> outc]
    /\ buildenv = <<>>
    /\ events = <<>>

----------------------------------------------------------------------------
(* ToolRegistry operations, before the batch starts *)

\* ToolRegistry.register
register(n, r) ==
    /\ pc = "idle"
    /\ registry' = DictSet(registry, n, [requires |-> r])
    /\ UNCHANGED <<libvars, buildenv, fsvars, batchvars, pc, results, runs, retval, cmds,
                   stages, events>>

\* ToolRegistry.unregister
unregister(n) ==
    /\ pc = "idle"
    /\ registry' = IF n \in KeySet(registry) THEN DictDel(registry, n)
                   ELSE registry
    /\ UNCHANGED <<libvars, buildenv, fsvars, batchvars, pc, results, runs, retval, cmds,
                   stages, events>>

----------------------------------------------------------------------------
(* WinToolsUpdater.update_all *)

update_all(r, b) ==
    /\ pc = "idle"
    /\ req' = r
    /\ branch' = b
    /\ todo' = tools_to_update(r, registry)
    /\ queue' = todo'
    /\ results' = <<>>
    /\ runs' = <<>>
    /\ pc' = "loop"
    /\ UNCHANGED <<libvars, buildenv, registry, fsvars, cur, retval, cmds, stages, pre,
                   events>>

\* for tool_name in tools_to_update: call update_tool
update_all_next ==
    /\ pc = "loop"
    /\ queue # <<>>
    /\ cur' = Head(queue)
    /\ queue' = Tail(queue)
    /\ retval' = "running"
    /\ cmds' = <<>>
    /\ stages' = <<>>
    /\ pre' = [wc |-> wc, art |-> art, out |-> out, outc |-> outc]
    /\ pc' = "update_tool"
    /\ buildenv' = <<>>
    /\ events' = <<"INFO", "INFO", "INFO">>
    /\ UNCHANGED <<libvars, registry, fsvars, req, branch, todo, results, runs>>

\* return results
update_all_return ==
    /\ pc = "loop"
    /\ queue = <<>>
    /\ pc' = "returned"
    /\ UNCHANGED <<libvars, buildenv, registry, fsvars, batchvars, results, runs, retval, cmds,
                   stages, events>>

----------------------------------------------------------------------------
(* WinToolsUpdater.update_tool *)

\* Lookup of the name; an unknown name returns False at once.
update_tool ==
    /\ pc = "update_tool"
    /\ IF Cfg.found
       THEN /\ pc' = "check_dependencies"
            /\ UNCHANGED <<retval, runs, results, events>>
       ELSE /\ events' = log("ERROR")
            /\ Return("False")
    /\ UNCHANGED <<libvars, buildenv, registry, fsvars, batchvars, cmds, stages>>

\* check_dependencies: shutil.which(required) unless required is empty.
check_dependencies ==
    /\ pc = "check_dependencies"
    /\ \E found \in IF Cfg.requires = "" THEN {TRUE} ELSE BOOLEAN :
          /\ cmds' = IF Cfg.requires = "" THEN cmds
                     ELSE Append(cmds, Cmd("which", Cfg.requires,
                                     IF found THEN "found" ELSE "absent"))
          /\ IF DependencyOk(Cfg.requires, found)
             THEN /\ stages' = Append(stages,
                                  [stage |-> "dependency", st |-> "ok"])
                  /\ pc' = "clone_or_update"
                  /\ UNCHANGED <<retval, runs, results, events>>
             ELSE /\ stages' = Append(stages,
                                  [stage |-> "dependency", st |-> "failed"])
                  /\ events' = log("ERROR")
                  /\ Return("False")
    /\ UNCHANGED <<libvars, buildenv, registry, fsvars, batchvars>>

----------------------------------------------------------------------------
(* GitOperations.clone_or_update, called by WinToolsUpdater.clone_or_update *)

\* What `git rev-parse --git-dir` can answer for a path that exists.
IsRepoRCs(w) == IF w = "repo" THEN RCs ELSE {"nonzero", "missing"}

\* An update_tool that builds whatever the synchronizer answered.
SyncDone_build_anyway(rc) ==
    /\ stages' = EndStage(IF GitSuccess(rc) THEN "ok" ELSE "failed")
    /\ pc' = "build_tool"
    /\ UNCHANGED <<retval, runs, results, events>>

\* The git result comes back to update_tool: build on success, else False.
SyncDone(rc) ==
    IF GitSuccess(rc)
    THEN /\ stages' = EndStage("ok")
         /\ pc' = "build_tool"
         /\ UNCHANGED <<retval, runs, results, events>>
    ELSE /\ stages' = EndStage("failed")
         /\ events' = log("ERROR")
         /\ Return("False")

\* A clone_or_update that leaves an existing repository as it is.
clone_or_update_skip ==
    /\ pc = "clone_or_update"
    /\ IF wc[cur] = "repo"
       THEN /\ stages' = Append(stages, [stage |-> "sync", st |-> "ok"])
            /\ cmds' = cmds
            /\ pc' = "build_tool"
       ELSE /\ stages' = StartStage("sync")
            /\ cmds' = IF wc[cur] = "absent" THEN cmds
                       ELSE Append(cmds, Cmd("is_repo", "", "nonzero"))
            /\ pc' = "clone"
    /\ events' = log("INFO")
    /\ UNCHANGED <<libvars, buildenv, registry, fsvars, batchvars, results, runs, retval>>

\* The choice between updating an existing repository and cloning.
clone_or_update ==
    /\ pc = "clone_or_update"
    /\ stages' = StartStage("sync")
    /\ \E rc \in IF wc[cur] = "absent" THEN {"notrun"} ELSE IsRepoRCs(wc[cur]) :
          /\ cmds' = IF rc = "notrun" THEN cmds
                     ELSE Append(cmds, Cmd("is_repo", "", rc))
          /\ pc' = IF UpdateExisting(wc[cur] # "absent", GitSuccess(rc))
                   THEN "fetch" ELSE "clone"
    /\ events' = log("INFO")
    /\ UNCHANGED <<libvars, buildenv, registry, fsvars, batchvars, results, runs, retval>>

\* A fetch that is issued once more after it failed.
fetch_retry ==
    /\ pc = "fetch"
    /\ \E rc \in RCs :
          /\ cmds' = Append(cmds, Cmd("fetch", "--all", rc))
          /\ IF GitSuccess(rc)
             THEN /\ pc' = "reset"
                  /\ UNCHANGED <<stages, retval, runs, results, events>>
             ELSE IF \E i \in 1..Len(cmds) : cmds[i].op = "fetch"
                  THEN SyncDone(rc)
                  ELSE /\ pc' = "fetch"
                       /\ UNCHANGED <<stages, retval, runs, results, events>>
    /\ UNCHANGED <<libvars, buildenv, registry, fsvars, batchvars>>

\* self.fetch(target_path, all_remotes=True)
fetch ==
    /\ pc = "fetch"
    /\ \E rc \in RCs :
          /\ cmds' = Append(cmds, Cmd("fetch", "--all", rc))
          /\ IF GitSuccess(rc)
             THEN /\ pc' = "reset"
                  /\ UNCHANGED <<stages, retval, runs, results, events>>
             ELSE SyncDone(rc)
    /\ UNCHANGED <<libvars, buildenv, registry, fsvars, batchvars>>

\* self.reset(target_path, target, hard=True)
reset ==
    /\ pc = "reset"
    /\ \E rc \in RCs :
          /\ cmds' = Append(cmds, Cmd("reset", ResetTarget(branch), rc))
          /\ IF GitSuccess(rc)
             THEN /\ pc' = "clean"
                  /\ UNCHANGED <<stages, retval, runs, results, events>>
             ELSE SyncDone(rc)
    /\ UNCHANGED <<libvars, buildenv, registry, fsvars, batchvars>>

\* return self.clean(target_path): untracked and ignored files go.
clean ==
    /\ pc = "clean"
    /\ \E rc \in RCs :
          /\ cmds' = Append(cmds, Cmd("clean", "-fdx", rc))
          /\ art' = IF GitSuccess(rc) THEN [art EXCEPT ![cur] = {}] ELSE art
          /\ artc' = IF GitSuccess(rc) THEN [artc EXCEPT ![cur] = 0] ELSE artc
          /\ SyncDone(rc)
    /\ UNCHANGED <<libvars, buildenv, registry, wc, out, outc, batchvars>>

\* return self.clone(repo_url, target_path, branch); git refuses to clone
\* into a directory that holds a repository already.
clone ==
    /\ pc = "clone"
    /\ \E rc \in IF wc[cur] = "repo" THEN {"nonzero", "missing"} ELSE RCs :
          /\ cmds' = Append(cmds, Cmd("clone", branch, rc))
          /\ wc' = IF GitSuccess(rc) THEN [wc EXCEPT ![cur] = "repo"] ELSE wc
          /\ SyncDone(rc)
    /\ UNCHANGED <<libvars, buildenv, registry, art, out, artc, outc, batchvars>>

----------------------------------------------------------------------------
(* WinToolsUpdater.build_tool *)

\* A backend that accepts any file of the artifact's base name in the tree.
VerifyOutput_search(files) == files # {}

\* full_output_path.exists() in the backends: the declared path only.
VerifyOutput(files) == "declared" \in files

\* A direct-invocation path that accepts any file of the right name.
OutputExists_fuzzy(files) == files # {}

\* output_path.exists() on the direct-invocation path.
OutputExists(files) == "declared" \in files

\* What the build command leaves in the working copy.
Built(rc, produced) ==
    IF rc = "missing" THEN art ELSE [art EXCEPT ![cur] = produced]

\* Position of the current call in the batch.
CurIndex == Len(todo) - Len(queue)

\* The bytes the build command writes at the declared path are those of this
\* call's build.
BuiltContent(rc, produced) ==
    IF rc = "missing" THEN artc
    ELSE [artc EXCEPT ![cur] = IF "declared" \in produced THEN CurIndex ELSE 0]

\* The look at the declared output path, made after a zero exit only.
Checked(ran, files) ==
    IF ran
    THEN <<Cmd("exists", "declared",
               IF "declared" \in files THEN "yes" ELSE "no")>>
    ELSE <<>>

\* get_builder and `if builder and builder.is_available()`
build_tool ==
    /\ pc = "build_tool"
    /\ stages' = StartStage("build")
    /\ LET builder == get_builder(Cfg.requires) IN
       \E avail \in IF builder = "None" THEN {FALSE} ELSE BOOLEAN :
          /\ cmds' = IF builder = "None" THEN cmds
                     ELSE Append(cmds, Cmd("which", executable(builder),
                                     IF avail THEN "found" ELSE "absent"))
          /\ pc' = IF UseBuilder(builder, avail) THEN "builder_build"
                   ELSE "run_cmd"
    /\ events' = log("INFO")
    /\ UNCHANGED <<libvars, buildenv, registry, fsvars, batchvars, results, runs, retval>>

\* builder.build: availability, the command, then the declared output.
builder_build ==
    /\ pc = "builder_build"
    /\ LET exe == executable(get_builder(Cfg.requires)) IN
       \E avail \in BOOLEAN, rc \in RCs, produced \in SUBSET Paths :
          IF ~avail
          THEN /\ cmds' = Append(cmds, Cmd("which", exe, "absent"))
               /\ art' = art
               /\ artc' = artc
               /\ buildenv' = buildenv
               /\ stages' = EndStage("failed")
               /\ events' = log("ERROR")
               /\ Return("False")
          ELSE /\ art' = Built(rc, produced)
               /\ artc' = BuiltContent(rc, produced)
               /\ buildenv' = RunCommandEnv(env_vars(cur))
               /\ cmds' = cmds \o <<Cmd("which", exe, "found"),
                                    Cmd("build", "builder", rc)>>
                                \o Checked(CommandOk(rc), art'[cur])
               /\ IF CommandOk(rc) /\ VerifyOutput(art'[cur])
                  THEN /\ stages' = NextStage("publish")
                       /\ pc' = "copy_artifact"
                       /\ UNCHANGED <<retval, runs, results, events>>
                  ELSE /\ stages' = EndStage("failed")
                       /\ events' = log("ERROR")
                       /\ Return("False")
    /\ UNCHANGED <<libvars, registry, wc, out, outc, batchvars>>

\* What a copy leaves behind: the destination on success; a source that
\* vanished after the build is gone from the working copy.
Copied(o) ==
    /\ out' = IF CopyOk(o) THEN out \cup {cur} ELSE out
    /\ art' = IF o = "vanished" THEN [art EXCEPT ![cur] = @ \ {"declared"}]
              ELSE art
    /\ outc' = IF CopyOk(o) THEN [outc EXCEPT ![cur] = artc[cur]] ELSE outc
    /\ artc' = IF o = "vanished" THEN [artc EXCEPT ![cur] = 0] ELSE artc

\* builder.copy_artifact: shutil.Error and OSError are caught.
copy_artifact ==
    /\ pc = "copy_artifact"
    /\ \E o \in CopyOutcomes :
          /\ cmds' = Append(cmds, Cmd("copy", "builder", o))
          /\ Copied(o)
          /\ IF CopyOk(o)
             THEN /\ stages' = EndStage("ok")
                  /\ events' = log("SUCCESS")
                  /\ Return("True")
             ELSE /\ stages' = EndStage("failed")
                  /\ events' = log("ERROR")
                  /\ Return("False")
    /\ UNCHANGED <<libvars, buildenv, registry, wc, batchvars>>

\* A direct invocation that removes the published artifact of the tool when
\* its build fails.
run_cmd_unpublish ==
    /\ pc = "run_cmd"
    /\ \E rc \in RCs, produced \in SUBSET Paths :
          /\ art' = Built(rc, produced)
          /\ artc' = BuiltContent(rc, produced)
          /\ buildenv' = RunCmdEnv(env_vars(cur))
          /\ cmds' = Append(cmds, Cmd("build", "direct", rc))
                                \o Checked(CommandOk(rc), art'[cur])
          /\ IF CommandOk(rc) /\ OutputExists(art'[cur])
             THEN /\ stages' = NextStage("publish")
                  /\ pc' = "copy2"
                  /\ UNCHANGED <<retval, runs, results, events, out, outc>>
             ELSE /\ stages' = EndStage("failed")
                  /\ events' = log("ERROR")
                  /\ out' = out \ {cur}
                  /\ outc' = [outc EXCEPT ![cur] = 0]
                  /\ Return("False")
    /\ UNCHANGED <<libvars, registry, wc, batchvars>>

\* Direct invocation: self.run_cmd(build_cmd), then output_path.exists().
run_cmd ==
    /\ pc = "run_cmd"
    /\ \E rc \in RCs, produced \in SUBSET Paths :
          /\ art' = Built(rc, produced)
          /\ artc' = BuiltContent(rc, produced)
          /\ buildenv' = RunCmdEnv(env_vars(cur))
          /\ cmds' = Append(cmds, Cmd("build", "direct", rc))
                                \o Checked(CommandOk(rc), art'[cur])
          /\ IF CommandOk(rc) /\ OutputExists(art'[cur])
             THEN /\ stages' = NextStage("publish")
                  /\ pc' = "copy2"
                  /\ UNCHANGED <<retval, runs, results, events>>
             ELSE /\ stages' = EndStage("failed")
                  /\ events' = log("ERROR")
                  /\ Return("False")
    /\ UNCHANGED <<libvars, registry, wc, out, outc, batchvars>>

\* shutil.copy2(output_path, dest_path) with no handler around it.
copy2 ==
    /\ pc = "copy2"
    /\ \E o \in CopyOutcomes :
          /\ cmds' = Append(cmds, Cmd("copy", "direct", o))
          /\ Copied(o)
          /\ IF CopyOk(o)
             THEN /\ stages' = EndStage("ok")
                  /\ events' = log("SUCCESS")
                  /\ Return("True")
             ELSE /\ stages' = EndStage("failed")
                  /\ events' = events
                  /\ Raise
    /\ UNCHANGED <<libvars, buildenv, registry, wc, batchvars>>

----------------------------------------------------------------------------

Next ==
    \/ \E n \in DOMAIN TOOLS : register(n, TOOLS[n].requires)
    \/ \E r \in CustomRequires : register("mytool", r)
    \/ \E n \in Names : unregister(n)
    \/ \E r \in Requests, b \in Branches : update_all(r, b)
    \/ update_all_next
    \/ update_all_return
    \/ update_tool
    \/ check_dependencies
    \/ clone_or_update
    \/ fetch
    \/ reset
    \/ clean
    \/ clone
    \/ build_tool
    \/ builder_build
    \/ copy_artifact
    \/ run_cmd
    \/ copy2

Spec == Init /\ [][Next]_vars

----------------------------------------------------------------------------
(* get_tool_info and list_built_tools: what the updater reports of the      *)
(* output directory.  Paths are sequences of segments.                      *)

\* The declared output of each tool, relative to its working copy; the
\* base names of different tools differ, as in TOOLS.
Output ==
    [n \in Names |->
        CASE n = "rubeus" -> <<"Rubeus", "bin", "Release", "Rubeus.exe">>
          [] n = "mytool" -> <<"dist", "mytool.exe">>
          [] OTHER -> <<"nosuch.exe">>]

\* Path(p).name
PathName(p) == p[Len(p)]

\* dest_path = self.output_dir / output_path.name, relative to output_dir
dest_path(n) == <<PathName(Output[n])>>

\* The files in output_dir, relative to it.
OutputFiles == {dest_path(n) : n \in out}

\* A look for the declared relative path below output_dir.
built_path_declared(n) == Output[n]

\* output_path = self.output_dir / Path(tool.output).name
built_path(n) == <<PathName(Output[n])>>

\* get_tool_info: None for a name outside the registry.
get_tool_info(n) ==
    IF n \in KeySet(registry)
    THEN [found |-> TRUE,
          built |-> built_path(n) \in OutputFiles,
          built_path |-> IF built_path(n) \in OutputFiles THEN built_path(n)
                         ELSE <<>>]
    ELSE [found |-> FALSE, built |-> FALSE, built_path |-> <<>>]

\* list_built_tools: the registry names whose output file exists.
list_built_tools ==
    SelectSeq(list_tools(registry), LAMBDA n : built_path(n) \in OutputFiles)

----------------------------------------------------------------------------
(* Legacy script WinBins.py: find_artifact.  Path strings are sequences of  *)
(* characters, so that len(str(p)), str.lower and the substring test are    *)
(* computed on the text of the path.                                        *)

\* Most candidates one rglob listing holds.
MaxMatches == 3

\* `needle in hay` for strings
Contains(hay, needle) ==
    \E i \in 1..(Len(hay) + 1) :
       /\ i + Len(needle) - 1 <= Len(hay)
       /\ SubSeq(hay, i, i + Len(needle) - 1) = needle

\* pathlib: a / b
Join(a, b) == a \o <<"/">> \o b

\* build_dir.resolve() of two hosts, and build_dir / name
BuildDirs == {<<"/", "o", "p", "t", "/", "b", "u", "i", "l", "d">>,
              <<"/", "s", "r", "v", "/", "r", "e", "l", "e", "a", "s", "e", "s", "/", "b", "u", "i", "l", "d">>}

ToolPaths == {Join(d, <<"r", "u", "b", "e", "u", "s">>) : d \in BuildDirs}

\* Files named exe_name in a working copy, relative to it.
Candidates ==
    {<<"b", "i", "n", "/", "R", "e", "l", "e", "a", "s", "e", "/", "R", "u", "b", "e", "u", "s", ".", "e", "x", "e">>,
     <<"o", "b", "j", "/", "D", "e", "b", "u", "g", "/", "R", "u", "b", "e", "u", "s", ".", "e", "x", "e">>,
     <<"R", "u", "b", "e", "u", "s", ".", "e", "x", "e">>,
     <<"a", "/", "b", "/", "R", "e", "l", "e", "a", "s", "e", "/", "R", "u", "b", "e", "u", "s", ".", "e", "x", "e">>,
     <<"o", "u", "t", "/", "r", "e", "l", "e", "a", "s", "e", "/", "R", "u", "b", "e", "u", "s", ".", "e", "x", "e">>,
     <<"r", "e", "l", "e", "a", "s", "e", "b", "u", "i", "l", "d", "s", "/", "R", "u", "b", "e", "u", "s", ".", "e", "x", "e">>}

\* Listings rglob can yield: distinct files, in any order.
Listings ==
    {l \in SeqsUpTo(Candidates, MaxMatches) :
        \A i, j \in 1..Len(l) : i # j => l[i] # l[j]}

ReleaseMarker == <<"r", "e", "l", "e", "a", "s", "e">>

\* A sort key that counts path segments instead of characters.
SortKey_segments(p) ==
    [norelease |-> ~Contains(LowerStr(p), ReleaseMarker),
     len |-> Cardinality({i \in 1..Len(p) : p[i] = "/"})]

\* key=lambda p: ("release" not in str(p).lower(), len(str(p)))
SortKey(p) ==
    [norelease |-> ~Contains(LowerStr(p), ReleaseMarker),
     len |-> Len(p)]

\* Order of the key tuples: False before True, then the smaller length.
KeyLess(a, b) ==
    \/ ~a.norelease /\ b.norelease
    \/ a.norelease = b.norelease /\ a.len < b.len

RECURSIVE Insert(_, _)
\* p goes behind every element whose key is not greater: the sort is stable.
Insert(sorted, p) ==
    IF sorted = <<>> THEN <<p>>
    ELSE IF KeyLess(SortKey(p), SortKey(sorted[Len(sorted)]))
         THEN Append(Insert(SubSeq(sorted, 1, Len(sorted) - 1), p),
                     sorted[Len(sorted)])
         ELSE Append(sorted, p)

RECURSIVE Sorted(_)
\* matches.sort(key=...)
Sorted(ms) ==
    IF ms = <<>> THEN <<>>
    ELSE Insert(Sorted(SubSeq(ms, 1, Len(ms) - 1)), ms[Len(ms)])

\* find_artifact: None for no match, else the head of the sorted matches.
find_artifact(ms) ==
    IF ms = <<>> THEN [called |-> TRUE, path |-> <<>>]
    ELSE [called |-> TRUE, path |-> Sorted(ms)[1]]

\* The updater of the orchestrator is idle while the legacy function runs.
PipelineUnused ==
    /\ registry = FromTOOLS(TOOLS_keys)
    /\ wc = [n \in Names |-> "absent"]
    /\ art = [n \in Names |-> {}]
    /\ out = {}
    /\ artc = [n \in Names |-> 0]
    /\ outc = [n \in Names |-> 0]
    /\ pc = "idle"
    /\ req = [given |-> FALSE, list |-> <<>>]
    /\ branch = ""
    /\ todo = <<>>
    /\ queue = <<>>
    /\ cur = "nosuch"
    /\ results = <<>>
    /\ runs = <<>>
    /\ retval = "none"
    /\ cmds = <<>>
    /\ stages = <<>>
    /\ pre = [wc |-> wc, art |-> art, out |-> out, outc |-> outc]
    /\ buildenv = <<>>
    /\ events = <<>>
    /\ CliUnused

\* A working copy after a build: rglob lists the candidates in some order.
InitFind ==
    /\ AuxUnused
    /\ PipelineUnused
    /\ DiagUnused
    /\ TwoUnused
    /\ FactoryUnused
    /\ RecoverUnused
    /\ tool_path \in ToolPaths
    /\ \E l \in Listings : matches = [i \in 1..Len(l) |-> Join(tool_path, l[i])]
    /\ artifact = [called |-> FALSE, path |-> <<>>]

\* artifact = self.find_artifact(tool_path, exe_name)
call_find_artifact ==
    /\ ~artifact.called
    /\ artifact' = find_artifact(matches)
    /\ UNCHANGED <<pipevars, tool_path, matches, factoryvars, recovervars>>

NextFind == call_find_artifact

SpecFind == InitFind /\ [][NextFind]_vars

----------------------------------------------------------------------------
(* BuilderFactory (winbins/builders/factory.py), called by any code of the  *)
(* process; _builders is a class attribute, shared by all callers.          *)

\* Most BuilderFactory.register calls of one process.
MaxRegs == 2

\* A register that keeps a class a build system already has.
Registered_setdefault(b, k, B) == IF b[k] = "None" THEN [b EXCEPT ![k] = B] ELSE b

\* BuilderFactory.register: cls._builders[build_system] = builder_class
Registered(b, k, B) == [b EXCEPT ![k] = B]

InitFactory ==
    /\ AuxUnused
    /\ PipelineUnused
    /\ DiagUnused
    /\ TwoUnused
    /\ FindUnused
    /\ FactoryUnused
    /\ RecoverUnused

BuilderFactory_register(k, B) ==
    /\ Len(reglog) < MaxRegs
    /\ builders' = Registered(builders, k, B)
    /\ reglog' = Append(reglog, [kind |-> k, class |-> B])
    /\ made' = [fn |-> "register", arg |-> k, result |-> "None"]
    /\ UNCHANGED <<pipevars, findvars, recovervars>>

BuilderFactory_create(k) ==
    /\ made' = [fn |-> "create", arg |-> k, result |-> create(builders, k)]
    /\ UNCHANGED <<pipevars, findvars, builders, reglog, recovervars>>

BuilderFactory_get_for_tool(requires) ==
    /\ made' = [fn |-> "get_for_tool", arg |-> requires,
                result |-> get_for_tool(builders, requires)]
    /\ UNCHANGED <<pipevars, findvars, builders, reglog, recovervars>>

\* The module-level get_builder, as build_tool calls it.
call_get_builder(requires) ==
    /\ made' = [fn |-> "get_builder", arg |-> requires,
                result |-> get_builder(requires)]
    /\ UNCHANGED <<pipevars, findvars, builders, reglog, recovervars>>

NextFactory ==
    \/ \E k \in BuildSystem, B \in BuilderClasses : BuilderFactory_register(k, B)
    \/ \E k \in BuildSystem : BuilderFactory_create(k)
    \/ \E r \in Identifiers : BuilderFactory_get_for_tool(r)
    \/ \E r \in Identifiers : call_get_builder(r)

SpecFactory == InitFactory /\ [][NextFactory]_vars

----------------------------------------------------------------------------
(* GitOperations.clone_or_update retried by the caller against a remote     *)
(* that is reachable and intact, with git installed: every git command      *)
(* answers as git does for the working copy it finds.  A run may be         *)
(* terminated abruptly while a git command is under way.                    *)

\* Most abrupt terminations in one behaviour.
MaxCrash == 3

\* target_path.exists()
Exists(r) == r.dir # "absent"

\* is_repo: git -C path rev-parse --git-dir needs a usable git directory;
\* git looks for it in path and then upwards in the directories above path,
\* so it also answers for a plain directory inside an enclosing repository.
RevParse(r) == IF r.gitdir \in {"ok", "enclosing"} THEN "zero" ELSE "nonzero"

\* clone: git refuses a destination that exists and is not an empty directory.
GitClone(r) == IF r.dir = "files" THEN "nonzero" ELSE "zero"

\* A complete clone at the revision of the remote.
Cloned ==
    [dir |-> "files", gitdir |-> "ok", lock |-> FALSE, refs |-> TRUE,
     tree |-> "remote", untracked |-> FALSE, outer |-> "none"]

\* fetch --all: brings the remote-tracking refs up to date.
GitFetch(r) == IF r.gitdir \in {"ok", "enclosing"} THEN "zero" ELSE "nonzero"

Fetched(r) == [r EXCEPT !.refs = TRUE]

\* reset --hard <target>: needs the target ref and the index lock; git does
\* not remove an index.lock that a killed git left behind.
GitReset(r) == IF r.refs /\ ~r.lock THEN "zero" ELSE "nonzero"

\* git -C path reset --hard rewrites the tracked files of the repository
\* that path lies in.
ResetDone(r) ==
    IF r.gitdir = "enclosing" THEN [r EXCEPT !.outer = "reset"]
    ELSE [r EXCEPT !.tree = "remote"]

\* clean -fdx
GitClean(r) == "zero"

\* A clean that leaves the untracked files where they are.
Cleaned_keep(r) == r

\* Removes what is untracked or ignored below path; in an enclosing
\* repository that is all a plain directory holds.
Cleaned(r) ==
    IF r.gitdir = "enclosing" THEN [r EXCEPT !.dir = "empty", !.untracked = FALSE]
    ELSE [r EXCEPT !.untracked = FALSE]

\* What a git command killed under way can leave of working copy r.
Leftover(step, r) ==
    CASE step = "clone" ->
            IF GitClone(r) # "zero" THEN {r}
            ELSE {r,
                  [NoRepo EXCEPT !.dir = "empty"],
                  [NoRepo EXCEPT !.dir = "files", !.gitdir = "broken"],
                  [NoRepo EXCEPT !.dir = "files", !.gitdir = "ok"],
                  [Cloned EXCEPT !.tree = "none"],
                  [Cloned EXCEPT !.tree = "partial", !.lock = TRUE],
                  Cloned}
      [] step = "fetch" ->
            IF GitFetch(r) # "zero" THEN {r} ELSE {r, Fetched(r)}
      [] step = "reset" ->
            IF GitReset(r) # "zero" THEN {r}
            ELSE {r, [r EXCEPT !.tree = "partial", !.lock = TRUE], ResetDone(r)}
      [] step = "clean" -> {r, Cleaned(r)}

\* Before the first run the tool was never fetched, or an earlier run left
\* a complete clone, possibly behind the remote and holding build products.
\* Or build_dir lies inside the checkout of another repository and
\* build_dir/<name> is a plain directory there, empty or holding files.
InitialRepos ==
    {NoRepo} \cup
    {[Cloned EXCEPT !.tree = t, !.untracked = u] :
        t \in {"old", "remote", "dirty"}, u \in BOOLEAN} \cup
    {[NoRepo EXCEPT !.dir = d, !.gitdir = "enclosing", !.untracked = (d = "files"),
                    !.outer = "intact"] : d \in {"empty", "files"}}

InitRecover ==
    /\ AuxUnused
    /\ PipelineUnused
    /\ DiagUnused
    /\ TwoUnused
    /\ FindUnused
    /\ FactoryUnused
    /\ repo \in InitialRepos
    /\ rpc = "start"
    /\ crashes = 0
    /\ recovering = FALSE
    /\ gitlog = <<>>
    /\ before = repo
    /\ since = NoSync

\* The first successful sync since the remote last moved is remembered.
Synced(r) == IF since.valid THEN since ELSE [valid |-> TRUE, repo |-> r]

\* A clone_or_update that clones whatever it finds.
sync_clone_or_update_reclone ==
    /\ rpc = "start"
    /\ rpc' = "clone"
    /\ gitlog' = <<>>
    /\ before' = repo
    /\ UNCHANGED <<pipevars, findvars, factoryvars, repo, crashes, recovering,
                   since>>

\* if target_path.exists() and self.is_repo(target_path)
sync_clone_or_update ==
    /\ rpc = "start"
    /\ rpc' = IF UpdateExisting(Exists(repo), GitSuccess(RevParse(repo)))
              THEN "fetch" ELSE "clone"
    /\ gitlog' = IF Exists(repo) THEN <<"rev-parse">> ELSE <<>>
    /\ before' = repo
    /\ UNCHANGED <<pipevars, findvars, factoryvars, repo, crashes, recovering,
                   since>>

sync_fetch ==
    /\ rpc = "fetch"
    /\ gitlog' = Append(gitlog, "fetch")
    /\ IF GitSuccess(GitFetch(repo))
       THEN repo' = Fetched(repo) /\ rpc' = "reset"
       ELSE repo' = repo /\ rpc' = "failed"
    /\ UNCHANGED <<pipevars, findvars, factoryvars, crashes, recovering,
                   before, since>>

sync_reset ==
    /\ rpc = "reset"
    /\ gitlog' = Append(gitlog, "reset")
    /\ IF GitSuccess(GitReset(repo))
       THEN repo' = ResetDone(repo) /\ rpc' = "clean"
       ELSE repo' = repo /\ rpc' = "failed"
    /\ UNCHANGED <<pipevars, findvars, factoryvars, crashes, recovering,
                   before, since>>

sync_clean ==
    /\ rpc = "clean"
    /\ gitlog' = Append(gitlog, "clean")
    /\ IF GitSuccess(GitClean(repo))
       THEN /\ repo' = Cleaned(repo) /\ rpc' = "ok" /\ recovering' = FALSE
            /\ since' = Synced(repo')
       ELSE /\ repo' = repo /\ rpc' = "failed" /\ recovering' = recovering
            /\ since' = since
    /\ UNCHANGED <<pipevars, findvars, factoryvars, crashes, before>>

sync_clone ==
    /\ rpc = "clone"
    /\ gitlog' = Append(gitlog, "clone")
    /\ IF GitSuccess(GitClone(repo))
       THEN /\ repo' = Cloned /\ rpc' = "ok" /\ recovering' = FALSE
            /\ since' = Synced(repo')
       ELSE /\ repo' = repo /\ rpc' = "failed" /\ recovering' = recovering
            /\ since' = since
    /\ UNCHANGED <<pipevars, findvars, factoryvars, crashes, before>>

\* The caller runs the tool again; since a successful sync the remote may
\* have moved on, tracked files may have been edited and a build may have
\* left files in the working copy.
next_sync ==
    /\ rpc \in {"ok", "failed"}
    /\ rpc' = "start"
    /\ gitlog' = <<>>
    /\ IF rpc = "ok"
       THEN \E moved \in BOOLEAN, edited \in BOOLEAN, files \in BOOLEAN :
               /\ repo' = IF repo.gitdir = "enclosing"
                          THEN [repo EXCEPT !.dir = IF files THEN "files" ELSE @,
                                            !.untracked = files]
                          ELSE [repo EXCEPT !.tree = IF moved THEN "old"
                                                    ELSE IF edited THEN "dirty"
                                                    ELSE @,
                                            !.untracked = files]
               /\ since' = IF moved THEN NoSync ELSE since
       ELSE repo' = repo /\ since' = since
    /\ UNCHANGED <<pipevars, findvars, factoryvars, crashes, recovering, before>>

\* The process and the git command it waits for are killed.
abrupt_termination ==
    /\ rpc \in {"clone", "fetch", "reset", "clean"}
    /\ crashes < MaxCrash
    /\ repo' \in Leftover(rpc, repo)
    /\ rpc' = "start"
    /\ crashes' = crashes + 1
    /\ recovering' = TRUE
    /\ gitlog' = <<>>
    /\ since' = NoSync
    /\ UNCHANGED <<pipevars, findvars, factoryvars, before>>

\* The steps the program takes by itself.
SyncSteps ==
    \/ sync_clone_or_update
    \/ sync_fetch
    \/ sync_reset
    \/ sync_clean
    \/ sync_clone
    \/ next_sync

NextRecover == SyncSteps \/ abrupt_termination

\* A started run goes on unless it is killed, and the caller keeps retrying.
SpecRecover == InitRecover /\ [][NextRecover]_vars /\ WF_vars(SyncSteps)

----------------------------------------------------------------------------
(* run_update of cli.py: the registry of built-in and configured tools,     *)
(* the check of the requested names, update_all and the exit code.          *)

\* config.tools of the loaded configuration, nothing without --config.
Configs ==
    {<<>>} \cup
    {<<[name |-> "mytool", val |-> [requires |-> r]]>> : r \in CustomRequires}

\* registry = ToolRegistry(); for name, tool_config in config.tools.items():
\* registry.register(name, tool_config)
RECURSIVE Merged(_, _)
Merged(reg, cfg) ==
    IF cfg = <<>> THEN reg
    ELSE Merged(DictSet(reg, Head(cfg).name, Head(cfg).val), Tail(cfg))

\* if args.tools: for tool in args.tools: if tool not in registry
Validated(reg, r) ==
    (r.given /\ r.list # <<>>) =>
        \A i \in 1..Len(r.list) : r.list[i] \in KeySet(reg)

\* An exit code that is content with one tool that succeeded.
ExitCode_any(res) ==
    IF res = <<>> \/ \E i \in 1..Len(res) : res[i].val = "True"
    THEN "0" ELSE "1"

\* success_count = sum(1 for v in results.values() if v);
\* return 0 if success_count == total_count else 1
ExitCode(res) ==
    LET success_count == Cardinality({i \in 1..Len(res) : res[i].val = "True"})
        total_count == Len(res)
    IN IF success_count = total_count THEN "0" ELSE "1"

InitCli ==
    /\ AuxUnused
    /\ FindUnused
    /\ FactoryUnused
    /\ RecoverUnused
    /\ CliUnused
    /\ DiagUnused
    /\ TwoUnused
    /\ registry = FromTOOLS(TOOLS_keys)
    /\ wc \in [Names -> {"absent", "plain", "repo"}]
    /\ wc["nosuch"] = "absent"
    /\ art = [n \in DOMAIN wc |-> {}]
    /\ out = {}
    /\ artc = [n \in DOMAIN wc |-> 0]
    /\ outc = [n \in DOMAIN wc |-> 0]
    /\ pc = "idle"
    /\ req = [given |-> FALSE, list |-> <<>>]
    /\ branch = ""
    /\ todo = <<>>
    /\ queue = <<>>
    /\ cur = "nosuch"
    /\ results = <<>>
    /\ runs = <<>>
    /\ retval = "none"
    /\ cmds = <<>>
    /\ stages = <<>>
    /\ pre = [wc |-> wc, art |-> art, out |-> out, outc |-> outc]
    /\ buildenv = <<>>
    /\ events = <<>>

\* A run_update that hands every requested name to update_all.
run_update_unvalidated(cfg, r, b) ==
    /\ pc = "idle"
    /\ registry' = Merged(FromTOOLS(TOOLS_keys), cfg)
    /\ req' = r
    /\ branch' = b
    /\ todo' = tools_to_update(r, registry')
    /\ queue' = todo'
    /\ pc' = "loop"
    /\ UNCHANGED <<auxvars, findvars, factoryvars, recovervars, diagvars, twovars, buildenv, fsvars, cur,
                   pre, results, runs, retval, cmds, stages, events, exitcode>>

\* run_update up to the start of the loop of update_all: an unknown name
\* among the requested ones returns 1 before the updater is made.
run_update(cfg, r, b) ==
    /\ pc = "idle"
    /\ registry' = Merged(FromTOOLS(TOOLS_keys), cfg)
    /\ req' = r
    /\ branch' = b
    /\ IF Validated(registry', r)
       THEN /\ todo' = tools_to_update(r, registry')
            /\ queue' = todo'
            /\ pc' = "loop"
            /\ exitcode' = exitcode
       ELSE /\ exitcode' = "1"
            /\ pc' = "returned"
            /\ UNCHANGED <<todo, queue>>
    /\ UNCHANGED <<auxvars, findvars, factoryvars, recovervars, diagvars, twovars, buildenv, fsvars, cur,
                   pre, results, runs, retval, cmds, stages, events>>

\* update_all returns results; run_update prints the summary and returns.
run_update_return ==
    /\ pc = "loop"
    /\ queue = <<>>
    /\ pc' = "returned"
    /\ exitcode' = ExitCode(results)
    /\ UNCHANGED <<auxvars, findvars, factoryvars, recovervars, diagvars, twovars, buildenv, registry,
                   fsvars, batchvars, results, runs, retval, cmds, stages, events>>

NextCli ==
    \/ \E cfg \in Configs, r \in Requests, b \in Branches : run_update(cfg, r, b)
    \/ update_all_next
    \/ update_tool
    \/ check_dependencies
    \/ clone_or_update
    \/ fetch
    \/ reset
    \/ clean
    \/ clone
    \/ build_tool
    \/ builder_build
    \/ copy_artifact
    \/ run_cmd
    \/ copy2
    \/ run_update_return

SpecCli == InitCli /\ [][NextCli]_vars

----------------------------------------------------------------------------
(* What a failed build command leaves of its output in the failure outcome: *)
(* the BuildResult of Builder.run_command, the log of run_cmd on the        *)
(* direct-invocation path, and the log of the legacy script.                *)

\* Most lines a build command writes.
MaxLines == 42

\* out.strip().splitlines()[-40:] of the legacy script
TailLimit == 40

\* The output of a command as its lines, numbered from 1.
Outputs == {[i \in 1..n |-> i] : n \in 0..MaxLines}

\* The line the program writes itself when it has nothing to show.
OwnMessage == <<0>>

\* l[-k:] of a Python list
LastLines(l, k) ==
    IF Len(l) <= k THEN l ELSE SubSeq(l, Len(l) - k + 1, Len(l))

InitDiag ==
    /\ AuxUnused
    /\ PipelineUnused
    /\ FindUnused
    /\ FactoryUnused
    /\ RecoverUnused
    /\ TwoUnused
    /\ captured \in Outputs
    /\ diag = [by |-> "none", rc |-> "none", lines |-> <<>>]

\* Builder.run_command: stdout and stderr of the finished command go into
\* the BuildResult as they are when they were captured; a command that could
\* not be started leaves the error message only.
Builder_run_command(rc, capture) ==
    /\ diag.by = "none"
    /\ rc = "missing" => captured = <<>>
    /\ diag' = [by |-> "Builder.run_command", rc |-> rc,
                lines |-> IF rc = "missing" THEN OwnMessage
                          ELSE IF capture THEN captured ELSE <<>>]
    /\ UNCHANGED <<auxvars, updatervars, findvars, factoryvars, recovervars, captured,
                   twovars>>

\* run_cmd of core.py: logs "Command failed" or "Command not found"; the
\* captured output is dropped (e.stderr is logged in verbose mode only,
\* where nothing is captured).
direct_run_cmd(rc) ==
    /\ diag.by = "none"
    /\ rc = "missing" => captured = <<>>
    /\ diag' = [by |-> "run_cmd", rc |-> rc, lines |-> OwnMessage]
    /\ UNCHANGED <<auxvars, updatervars, findvars, factoryvars, recovervars, captured,
                   twovars>>

\* Legacy build_and_copy: "\n".join(out.strip().splitlines()[-40:]) or
\* "Build failed"; verbose mode captures nothing.
legacy_build_and_copy(rc, verbose) ==
    /\ diag.by = "none"
    /\ rc = "missing" => captured = <<>>
    /\ LET text == IF rc = "missing" THEN OwnMessage
                   ELSE IF verbose THEN <<>> ELSE captured
           tail == LastLines(text, TailLimit)
       IN diag' = [by |-> "legacy", rc |-> rc,
                   lines |-> IF tail = <<>> THEN OwnMessage ELSE tail]
    /\ UNCHANGED <<auxvars, updatervars, findvars, factoryvars, recovervars, captured,
                   twovars>>

NextDiag ==
    \/ \E rc \in {"nonzero", "missing"}, capture \in BOOLEAN :
          Builder_run_command(rc, capture)
    \/ \E rc \in {"nonzero", "missing"} : direct_run_cmd(rc)
    \/ \E rc \in {"nonzero", "missing"}, verbose \in BOOLEAN :
          legacy_build_and_copy(rc, verbose)

SpecDiag == InitDiag /\ [][NextDiag]_vars

----------------------------------------------------------------------------
(* Two WinToolsUpdater instances, in two processes, each running            *)
(* update_tool once for the same tool.  Every command succeeds when it is   *)
(* left alone: what goes wrong comes from the other instance.  The program  *)
(* takes no lock, so the steps of the two interleave freely.                *)

Insts == {"A", "B"}

\* The directories an instance can be given as build_dir and output_dir.
Roots == {"r1", "r2"}

NoArtifact == [by |-> "none", disturbed |-> FALSE]

\* Left by a run before both instances started.
OldArtifact == [by |-> "old", disturbed |-> FALSE]

\* An updater that keeps its working copies in one fixed place.
BuildDir_fixed(i) == "r1"

\* target_path = self.build_dir / tool_name
BuildDir(i) == inst[i].root

\* dest_path = self.output_dir / output_path.name
OutputDir(i) == inst[i].root

\* The instances other than i that are building in directory d right now.
Building(i, d) ==
    {j \in Insts \ {i} : BuildDir(j) = d /\ inst[j].pc = "building"}

\* inst after i moved to pc p while rewriting files of its working copy.
Rewrote(i, p) ==
    [j \in Insts |->
        IF j = i THEN [inst[j] EXCEPT !.pc = p]
        ELSE IF j \in Building(i, BuildDir(i))
             THEN [inst[j] EXCEPT !.disturbed = TRUE]
             ELSE inst[j]]

\* update_tool returns: "ok", or the stage that failed.
Done(i, r) == [inst EXCEPT ![i].pc = "done", ![i].ret = r]

InitTwo ==
    /\ AuxUnused
    /\ PipelineUnused
    /\ FindUnused
    /\ FactoryUnused
    /\ RecoverUnused
    /\ DiagUnused
    /\ inst \in [Insts -> [root : Roots, pc : {"start"}, ret : {"none"},
                           disturbed : {FALSE}]]
    /\ tree \in [Roots -> [exists : {TRUE}, artifact : {NoArtifact, OldArtifact}]
                          \cup {[exists |-> FALSE, artifact |-> NoArtifact]}]
    /\ outdir = [r \in Roots |-> NoArtifact]

\* if target_path.exists() and self.is_repo(target_path); the fetch that
\* follows writes below .git only.
inst_clone_or_update(i) ==
    /\ inst[i].pc = "start"
    /\ inst' = [inst EXCEPT ![i].pc = IF tree[BuildDir(i)].exists
                                      THEN "reset" ELSE "clone"]
    /\ UNCHANGED <<auxvars, updatervars, findvars, factoryvars, recovervars, diagvars,
                   tree, outdir>>

\* git clone refuses a directory that holds a working copy by now.
inst_clone(i) ==
    /\ inst[i].pc = "clone"
    /\ IF tree[BuildDir(i)].exists
       THEN inst' = Done(i, "sync") /\ tree' = tree
       ELSE /\ inst' = [inst EXCEPT ![i].pc = "build"]
            /\ tree' = [tree EXCEPT ![BuildDir(i)].exists = TRUE]
    /\ UNCHANGED <<auxvars, updatervars, findvars, factoryvars, recovervars, diagvars,
                   outdir>>

\* git reset --hard rewrites the tracked files.
inst_reset(i) ==
    /\ inst[i].pc = "reset"
    /\ inst' = Rewrote(i, "clean")
    /\ UNCHANGED <<auxvars, updatervars, findvars, factoryvars, recovervars, diagvars,
                   tree, outdir>>

\* git clean -fdx removes what a build left, the artifact included.
inst_clean(i) ==
    /\ inst[i].pc = "clean"
    /\ inst' = Rewrote(i, "build")
    /\ tree' = [tree EXCEPT ![BuildDir(i)].artifact = NoArtifact]
    /\ UNCHANGED <<auxvars, updatervars, findvars, factoryvars, recovervars, diagvars,
                   outdir>>

\* The build command is started ...
inst_build_start(i) ==
    /\ inst[i].pc = "build"
    /\ inst' = [inst EXCEPT ![i].pc = "building"]
    /\ UNCHANGED <<auxvars, updatervars, findvars, factoryvars, recovervars, diagvars,
                   tree, outdir>>

\* ... and ends having written the artifact from the files it read.
inst_build_end(i) ==
    /\ inst[i].pc = "building"
    /\ inst' = [inst EXCEPT ![i].pc = "verify"]
    /\ tree' = [tree EXCEPT ![BuildDir(i)].artifact =
                                [by |-> i, disturbed |-> inst[i].disturbed]]
    /\ UNCHANGED <<auxvars, updatervars, findvars, factoryvars, recovervars, diagvars,
                   outdir>>

\* full_output_path.exists() / output_path.exists()
inst_verify(i) ==
    /\ inst[i].pc = "verify"
    /\ inst' = IF tree[BuildDir(i)].artifact = NoArtifact
               THEN Done(i, "build")
               ELSE [inst EXCEPT ![i].pc = "copy"]
    /\ UNCHANGED <<auxvars, updatervars, findvars, factoryvars, recovervars, diagvars,
                   tree, outdir>>

\* copy_artifact / shutil.copy2 of whatever lies at the declared path.
inst_copy(i) ==
    /\ inst[i].pc = "copy"
    /\ IF tree[BuildDir(i)].artifact = NoArtifact
       THEN inst' = Done(i, "publish") /\ outdir' = outdir
       ELSE /\ inst' = Done(i, "ok")
            /\ outdir' = [outdir EXCEPT ![OutputDir(i)] =
                                            tree[BuildDir(i)].artifact]
    /\ UNCHANGED <<auxvars, updatervars, findvars, factoryvars, recovervars, diagvars,
                   tree>>

NextTwo ==
    \E i \in Insts :
        \/ inst_clone_or_update(i)
        \/ inst_clone(i)
        \/ inst_reset(i)
        \/ inst_clean(i)
        \/ inst_build_start(i)
        \/ inst_build_end(i)
        \/ inst_verify(i)
        \/ inst_copy(i)

SpecTwo == InitTwo /\ [][NextTwo]_vars

----------------------------------------------------------------------------
(* ToolRegistry on its own: register, unregister and merge *)

\* The ToolRegistry instances: one starts from TOOLS, one from tools={}.
RegIds == {"defaults", "custom"}

\* The names each instance is asked about.
RegNames ==
    [i \in RegIds |-> IF i = "defaults" THEN Names ELSE {"mytool", "nosuch"}]

\* The "name" key of a config dict: to_dict writes one, a hand-written
\* dict has none.
DataNames == {"none", "mytool"}

\* The config dicts handed to register.
RegData == [name : DataNames, requires : CustomRequires]

\* A from_dict that believes the "name" key of the dict.
from_dict_data_name(name, data) ==
    [name |-> data.name, requires |-> data.requires]

\* ToolConfig.from_dict: name=name, the other fields from the dict.
from_dict(name, data) == [name |-> name, requires |-> data.requires]

RECURSIVE ToolRegistry(_)
\* ToolRegistry.__init__: registers the initial tools one by one.
ToolRegistry(ks) ==
    IF ks = <<>> THEN <<>>
    ELSE DictSet(ToolRegistry(SubSeq(ks, 1, Len(ks) - 1)), ks[Len(ks)],
                 from_dict(ks[Len(ks)],
                           [name |-> "none",
                            requires |-> TOOLS[ks[Len(ks)]].requires]))

\* The record kept of the last call.
Call(fn, self, name, ret) ==
    [fn |-> fn, self |-> self, name |-> name, ret |-> ret,
     before |-> regs[self]]

InitRegistry ==
    /\ PipelineUnused
    /\ FindUnused
    /\ FactoryUnused
    /\ RecoverUnused
    /\ DiagUnused
    /\ TwoUnused
    /\ LoggerUnused
    /\ GeneratorUnused
    /\ regs = [i \in RegIds |->
                  IF i = "defaults" THEN ToolRegistry(TOOLS_keys)
                  ELSE ToolRegistry(<<>>)]
    /\ regcall = [fn |-> "none"]

\* ToolRegistry.register: self._tools[name] = ToolConfig.from_dict(...)
ToolRegistry_register(self, name, data) ==
    /\ regs' = [regs EXCEPT ![self] = DictSet(@, name, from_dict(name, data))]
    /\ regcall' = Call("register", self, name, "None")
    /\ UNCHANGED <<oldvars, logvars, genvars>>

\* An unregister that reports success whatever it found.
ToolRegistry_unregister_always(self, name) ==
    /\ regs' = [regs EXCEPT ![self] = DictDel(@, name)]
    /\ regcall' = Call("unregister", self, name, "True")
    /\ UNCHANGED <<oldvars, logvars, genvars>>

\* ToolRegistry.unregister
ToolRegistry_unregister(self, name) ==
    /\ IF name \in KeySet(regs[self])
       THEN /\ regs' = [regs EXCEPT ![self] = DictDel(@, name)]
            /\ regcall' = Call("unregister", self, name, "True")
       ELSE /\ regs' = regs
            /\ regcall' = Call("unregister", self, name, "False")
    /\ UNCHANGED <<oldvars, logvars, genvars>>

RECURSIVE Update(_, _)
\* for name, tool in other._tools.items(): self._tools[name] = tool
Update(d, items) ==
    IF items = <<>> THEN d
    ELSE DictSet(Update(d, SubSeq(items, 1, Len(items) - 1)),
                 items[Len(items)].name, items[Len(items)].val)

\* ToolRegistry.merge
ToolRegistry_merge(self, other) ==
    /\ regs' = [regs EXCEPT ![self] = Update(@, regs[other])]
    /\ regcall' = Call("merge", self, other, "None")
    /\ UNCHANGED <<oldvars, logvars, genvars>>

\* ToolRegistry.get
get(d, name) == IF name \in KeySet(d) THEN DictGet(d, name) ELSE "None"

\* ToolRegistry.__contains__
contains(d, name) == name \in KeySet(d)

\* ToolRegistry.__len__
len(d) == Len(d)

\* ToolRegistry.__iter__
iter(d) == Keys(d)

NextRegistry ==
    \/ \E self \in RegIds : \E name \in RegNames[self], data \in RegData :
           ToolRegistry_register(self, name, data)
    \/ \E self \in RegIds : \E name \in RegNames[self] :
           ToolRegistry_unregister(self, name)
    \/ \E other \in RegIds : ToolRegistry_merge("defaults", other)

SpecRegistry == InitRegistry /\ [][NextRegistry]_vars

----------------------------------------------------------------------------
(* winbins.logging and the updater's use of it *)

\* WinBinsLogger instances made in one run.
MaxLoggers == 3

\* WinBinsLogger.__init__: self.verbose = verbose
WinBinsLogger(verbose) == [verbose |-> verbose]

\* A logger that prints whatever it is given.
WinBinsLogger_log_all(l, level) == <<level>>

\* WinBinsLogger.log: DEBUG is dropped unless the logger is verbose.
WinBinsLogger_log(l, level) ==
    IF level = "DEBUG" /\ ~l.verbose THEN <<>> ELSE <<level>>

\* get_logger: the instances after the call ...
get_logger_instances(verbose) ==
    IF default_logger = 0 THEN Append(loggers, WinBinsLogger(verbose))
    ELSE loggers

\* ... and the instance it returns.
get_logger_return == IF default_logger = 0 THEN Len(loggers) + 1
                     ELSE default_logger

\* The record kept of the last call.
LogCall(fn, arg, ret, emitted) ==
    [fn |-> fn, arg |-> arg, ret |-> ret, emitted |-> emitted,
     before |-> loggers]

\* What a flag looks like as the argument of a recorded call.
Flag(b) == IF b THEN "True" ELSE "False"

InitLog ==
    /\ PipelineUnused
    /\ FindUnused
    /\ FactoryUnused
    /\ RecoverUnused
    /\ DiagUnused
    /\ TwoUnused
    /\ RegistryUnused
    /\ GeneratorUnused
    /\ LoggerUnused

\* A client constructs a logger of its own.
WinBinsLogger_init(verbose) ==
    /\ Len(loggers) < MaxLoggers
    /\ loggers' = Append(loggers, WinBinsLogger(verbose))
    /\ logcall' = LogCall("WinBinsLogger", Flag(verbose), Len(loggers) + 1,
                          <<>>)
    /\ UNCHANGED <<oldvars, regvars, genvars, default_logger, updater, gets>>

\* get_logger(verbose)
get_logger(verbose) ==
    /\ default_logger = 0 => Len(loggers) < MaxLoggers
    /\ loggers' = get_logger_instances(verbose)
    /\ default_logger' = get_logger_return
    /\ gets' = gets \cup {get_logger_return}
    /\ logcall' = LogCall("get_logger", Flag(verbose), get_logger_return, <<>>)
    /\ UNCHANGED <<oldvars, regvars, genvars, updater>>

\* set_logger(logger)
set_logger(l) ==
    /\ l \in 1..Len(loggers)
    /\ default_logger' = l
    /\ gets' = {}
    /\ logcall' = LogCall("set_logger", "", l, <<>>)
    /\ UNCHANGED <<oldvars, regvars, genvars, loggers, updater>>

\* WinToolsUpdater.__init__ with logger=None:
\* self.verbose = verbose; self.logger = logger or get_logger(verbose)
WinToolsUpdater_init(verbose) ==
    /\ default_logger = 0 => Len(loggers) < MaxLoggers
    /\ loggers' = get_logger_instances(verbose)
    /\ default_logger' = get_logger_return
    /\ gets' = gets \cup {get_logger_return}
    /\ updater' = [built |-> TRUE, verbose |-> verbose,
                   logger |-> get_logger_return,
                   installed |-> default_logger # 0]
    /\ logcall' = LogCall("WinToolsUpdater", Flag(verbose), get_logger_return,
                          <<>>)
    /\ UNCHANGED <<oldvars, regvars, genvars>>

\* WinToolsUpdater.log: self.logger.log(msg, level_map.get(level, INFO))
WinToolsUpdater_log_events(level) ==
    WinBinsLogger_log(loggers[updater.logger], level_map(level))

\* WinToolsUpdater.log called by a client.
WinToolsUpdater_log(level) ==
    /\ updater.built
    /\ logcall' = LogCall("log", level, 0, WinToolsUpdater_log_events(level))
    /\ UNCHANGED <<oldvars, regvars, genvars, loggers, default_logger, updater, gets>>

\* How the command of run_cmd can end.
CmdEnds == {"ok", "failed", "failed_stderr", "not_found"}

\* run_cmd of core.py: "Running: ..." at DEBUG if self.verbose, then the
\* ERROR events of a command that failed or was not found.
WinToolsUpdater_run_cmd(end) ==
    /\ updater.built
    /\ logcall' =
           LogCall("run_cmd", end, 0,
               (IF updater.verbose THEN WinToolsUpdater_log_events("DEBUG")
                ELSE <<>>)
               \o (IF end = "ok" THEN <<>>
                   ELSE WinToolsUpdater_log_events("ERROR"))
               \o (IF end = "failed_stderr" /\ updater.verbose
                   THEN WinToolsUpdater_log_events("ERROR") ELSE <<>>))
    /\ UNCHANGED <<oldvars, regvars, genvars, loggers, default_logger, updater, gets>>

NextLog ==
    \/ \E verbose \in BOOLEAN : WinBinsLogger_init(verbose)
    \/ \E verbose \in BOOLEAN : get_logger(verbose)
    \/ \E l \in 1..MaxLoggers : set_logger(l)
    \/ \E verbose \in BOOLEAN : WinToolsUpdater_init(verbose)
    \/ \E level \in LogLevels \cup {"TRACE"} : WinToolsUpdater_log(level)
    \/ \E end \in CmdEnds : WinToolsUpdater_run_cmd(end)

SpecLog == InitLog /\ [][NextLog]_vars

----------------------------------------------------------------------------
(* NameGenerator of obfuscation/base.py *)

\* The longest max_length a generator is constructed with.
MaxLength == 2

\* string.ascii_letters and string.digits, cut down to a few characters.
ascii_letters == {"a", "Z"}

digits == {"0"}

RECURSIVE NamesOfLength(_)
\* choice(ascii_letters) followed by choices(ascii_letters + digits, k - 1)
NamesOfLength(k) ==
    IF k = 1 THEN {<<c>> : c \in ascii_letters}
    ELSE {Append(n, c) : n \in NamesOfLength(k - 1),
                         c \in ascii_letters \cup digits}

\* What one iteration of generate can draw: randint(min_length, max_length)
\* and then a name of that length.
Drawable ==
    UNION {NamesOfLength(k) : k \in namegen.min_length..namegen.max_length}

\* NameGenerator.__init__
InitGen ==
    /\ PipelineUnused
    /\ FindUnused
    /\ FactoryUnused
    /\ RecoverUnused
    /\ DiagUnused
    /\ TwoUnused
    /\ RegistryUnused
    /\ LoggerUnused
    /\ namegen \in {[min_length |-> a, max_length |-> b] :
                       a \in 1..MaxLength, b \in 1..MaxLength}
    /\ namegen.min_length <= namegen.max_length
    /\ used_names = {}
    /\ gpc = "idle"
    /\ full_name = <<>>
    /\ handed = {}
    /\ fresh = TRUE

\* A client calls generate(): the loop is entered.
generate ==
    /\ gpc = "idle"
    /\ gpc' = "while"
    /\ full_name' = <<>>
    /\ UNCHANGED <<oldvars, regvars, logvars, namegen, used_names, handed,
                   fresh>>

\* The body of the loop up to full_name = f"{prefix}{name}{suffix}".
generate_draw(name) ==
    /\ gpc = "while"
    /\ name \in Drawable
    /\ full_name' = name
    /\ gpc' = "if"
    /\ UNCHANGED <<oldvars, regvars, logvars, namegen, used_names, handed,
                   fresh>>

\* The draw of a name that is not in _used_names.
generate_draw_unused ==
    \E name \in Drawable \ used_names : generate_draw(name)

\* if full_name not in self._used_names: add it and return it; else go round.
generate_if ==
    /\ gpc = "if"
    /\ IF full_name \notin used_names
       THEN /\ used_names' = used_names \cup {full_name}
            /\ gpc' = "idle"
            /\ handed' = handed \cup {full_name}
            /\ fresh' = (fresh /\ full_name \notin handed)
            /\ full_name' = full_name
       ELSE /\ gpc' = "while"
            /\ full_name' = <<>>
            /\ UNCHANGED <<used_names, handed, fresh>>
    /\ UNCHANGED <<oldvars, regvars, logvars, namegen>>

\* NameGenerator.reset
NameGenerator_reset ==
    /\ gpc = "idle"
    /\ used_names' = {}
    /\ handed' = {}
    /\ full_name' = <<>>
    /\ UNCHANGED <<oldvars, regvars, logvars, namegen, gpc, fresh>>

\* The steps of a generate() call in progress.
GenerateSteps ==
    \/ \E name \in UNION {NamesOfLength(k) : k \in 1..MaxLength} :
           generate_draw(name)
    \/ generate_if

NextGen ==
    \/ generate
    \/ GenerateSteps
    \/ NameGenerator_reset

\* The interpreter keeps running a call in progress, and its random source
\* draws every name it can draw again and again.
FairGen ==
    /\ WF_vars(GenerateSteps)
    /\ SF_vars(generate_draw_unused)

SpecGen == InitGen /\ [][NextGen]_vars /\ FairGen

----------------------------------------------------------------------------
(* Properties *)

IsPrefix(a, b) == Len(a) <= Len(b) /\ \A i \in 1..Len(a) : a[i] = b[i]

Ops(s) == [i \in 1..Len(s) |-> s[i].op]

\* The clone, fetch, reset and clean commands of the current call, in order.
GitCmds == SelectSeq(cmds, LAMBDA c : c.op \in {"clone", "fetch", "reset", "clean"})

\* is_repo answered yes for the local path in the current call.
Recognized == \E i \in 1..Len(cmds) : cmds[i].op = "is_repo" /\ cmds[i].rc = "zero"

\* C1: for an existing path recognized as a repository, sync issues fetch
\* of all remotes, hard reset to origin/<branch> (origin/HEAD without a
\* branch) and clean in this order, each only after the one before it
\* succeeded, issues no clone, and returns the outcome of the first failing
\* step or of clean.
SyncUpdatesInOrder ==
    Recognized =>
       /\ IsPrefix(Ops(GitCmds), <<"fetch", "reset", "clean">>)
       /\ \A i \in 1..Len(GitCmds) : i < Len(GitCmds) => GitCmds[i].rc = "zero"
       /\ \A i \in 1..Len(GitCmds) :
             /\ GitCmds[i].op = "fetch" => GitCmds[i].arg = "--all"
             /\ GitCmds[i].op = "reset" =>
                   GitCmds[i].arg = (IF branch = "dev" THEN "origin/dev"
                                     ELSE "origin/HEAD")
       /\ StageSt("sync") = "running" =>
             /\ Len(GitCmds) < 3
             /\ \A i \in 1..Len(GitCmds) : GitCmds[i].rc = "zero"
             /\ pc = <<"fetch", "reset", "clean">>[Len(GitCmds) + 1]
       /\ StageSt("sync") = "ok" =>
             Len(GitCmds) = 3 /\ GitCmds[3].rc = "zero"
       /\ StageSt("sync") = "failed" =>
             Len(GitCmds) >= 1 /\ GitCmds[Len(GitCmds)].rc # "zero"

\* An existing repository went through fetch, reset to the branch and clean.
SyncUpdatesInOrderWitness ==
    /\ Recognized
    /\ branch = "dev"
    /\ StageSt("sync") = "ok"
    /\ Ops(GitCmds) = <<"fetch", "reset", "clean">>

\* C2: for a local path that is absent or not recognized as a repository,
\* sync issues exactly one clone (with the branch when one is given) and no
\* fetch, reset or clean; it succeeds exactly when the clone exits zero.
SyncClonesOnce ==
    (StageSt("sync") # "none" /\ ~Recognized) =>
       /\ IsPrefix(Ops(GitCmds), <<"clone">>)
       /\ \A i \in 1..Len(GitCmds) : GitCmds[i].arg = branch
       /\ StageSt("sync") = "running" => GitCmds = <<>> /\ pc = "clone"
       /\ StageSt("sync") \in {"ok", "failed"} =>
             /\ Len(GitCmds) = 1
             /\ StageSt("sync") = "ok" <=> GitCmds[1].rc = "zero"
       /\ StageSt("sync") = "ok" => wc[cur] = "repo"

\* A plain directory that is no repository was cloned into.
SyncClonesOnceWitness ==
    /\ ~Recognized
    /\ pre.wc[cur] = "plain"
    /\ \E i \in 1..Len(cmds) : cmds[i].op = "is_repo"
    /\ StageSt("sync") = "ok"
    /\ Ops(GitCmds) = <<"clone">>

\* The dependency probe of the current call found the required toolchain
\* missing.
GateClosed ==
    /\ cmds # <<>>
    /\ Cfg.requires # ""
    /\ cmds[1] = Cmd("which", Cfg.requires, "absent")

\* C3: when the required toolchain is set and not on the search path,
\* update_tool returns failure having run no git command, no build command
\* and no copy; working copies and the output root are as before the call.
DependencyGate ==
    GateClosed =>
       /\ Len(cmds) = 1
       /\ retval = "False"
       /\ runs # <<>> /\ runs[Len(runs)].name = cur /\ runs[Len(runs)].ret = "False"
       /\ wc = pre.wc /\ art = pre.art /\ out = pre.out

\* A tool without a working copy was refused at the gate.
DependencyGateWitness ==
    /\ GateClosed
    /\ pc = "loop"
    /\ retval = "False"
    /\ wc[cur] = "absent"

\* C4: in update_all no tool's failure aborts or skips the others: every
\* requested name is processed and gets its own result.
EveryRequestedToolProcessed ==
    pc \in {"returned", "raised"} =>
       /\ Len(runs) = Len(todo)
       /\ \A i \in 1..Len(runs) :
             runs[i].name = todo[i] /\ runs[i].ret \in {"True", "False"}
       /\ KeySet(results) = {todo[i] : i \in 1..Len(todo)}

StageOrder == <<"dependency", "sync", "build", "publish">>

\* Pipeline stage that a logged command belongs to (0: search-path probe).
StageRank(op) ==
    CASE op \in {"is_repo", "clone", "fetch", "reset", "clean"} -> 2
      [] op \in {"build", "exists"} -> 3
      [] op = "copy" -> 4
      [] OTHER -> 0

\* C5: a run passes dependency check, sync, build and publish in this
\* order, each at most once and only after every earlier stage succeeded;
\* it ends as success after publish or as failure at the first failing
\* stage, after which no stage runs.
PipelineOrder ==
    /\ IsPrefix([i \in 1..Len(stages) |-> stages[i].stage], StageOrder)
    /\ \A i \in 1..Len(stages) : i < Len(stages) => stages[i].st = "ok"
    /\ retval = "True" => Len(stages) = 4 /\ stages[4].st = "ok"
    /\ retval \in {"False", "raised"} =>
          stages = <<>> \/ stages[Len(stages)].st = "failed"
    /\ retval = "running" =>
          stages = <<>> \/ stages[Len(stages)].st \in {"running", "ok"}
    /\ \A i \in 1..Len(cmds) :
          LET r == StageRank(cmds[i].op) IN
          r > 0 =>
             /\ Len(stages) >= r
             /\ \A j \in 1..i : StageRank(cmds[j].op) <= r
    /\ \A i, j \in 1..Len(cmds) :
          (i # j /\ cmds[i].op = cmds[j].op) => cmds[i].op = "which"

\* A run went through all four stages and succeeded.
PipelineOrderWitness ==
    /\ retval = "True"
    /\ [i \in 1..Len(stages) |-> stages[i].stage] = StageOrder
    /\ \E i \in 1..Len(cmds) : cmds[i].op = "copy" /\ cmds[i].rc = "copied"

\* A call of update_tool has begun for cur.
Called == retval # "none"

\* cur was answered without any pipeline activity.
Untouched ==
    /\ cmds = <<>>
    /\ stages = <<>>
    /\ wc = pre.wc /\ art = pre.art /\ out = pre.out
    /\ pc # "update_tool" => retval = "False"

\* C6 as stated: a name that is not in the orchestrator's registry is
\* answered with failure and no probe, git command, build or copy.
UnregisteredNameUntouched ==
    (Called /\ cur \notin KeySet(registry)) => Untouched

\* C6: a name that is neither in the orchestrator's registry nor in the
\* built-in TOOLS table is answered with failure and no probe, git command,
\* build or copy.
UnknownNameUntouched ==
    (Called /\ cur \notin KeySet(registry) /\ cur \notin DOMAIN TOOLS)
       => Untouched

\* A name of neither table was requested and refused.
UnknownNameUntouchedWitness ==
    /\ Called
    /\ pc = "loop"
    /\ cur \notin KeySet(registry) /\ cur \notin DOMAIN TOOLS
    /\ retval = "False"
    /\ runs[Len(runs)].name = cur

\* An earlier call of this batch synced cur successfully.
SyncedBefore ==
    \E j \in 1..Len(runs) :
       j < CurIndex /\ runs[j].name = cur /\ runs[j].synced

HasCmd(op, rc) == \E i \in 1..Len(cmds) : cmds[i].op = op /\ cmds[i].rc = rc

HasOp(op) == \E i \in 1..Len(cmds) : cmds[i].op = op

FallbackRan == \E i \in 1..Len(cmds) : cmds[i].op = "build" /\ cmds[i].arg = "direct"

Ended == retval \in {"True", "False", "raised"}

\* C8 as stated: on the direct-invocation path build_tool succeeds exactly
\* when the build command exits zero and the declared output path exists.
FallbackSuccessIffBuiltAndPresent ==
    (Ended /\ FallbackRan) =>
       (retval = "True" <=>
           (HasCmd("build", "zero") /\ HasCmd("exists", "yes")))

\* C8: on the direct-invocation path build_tool succeeds exactly when the
\* build command exits zero, the declared output path exists verbatim and
\* its copy to the output root completes; after a non-zero exit or a
\* missing executable the artifact is not looked for, and a zero exit with
\* the declared path absent fails, whatever else lies in the working copy.
FallbackSuccess ==
    (Ended /\ FallbackRan) =>
       /\ retval = "True" <=>
             /\ HasCmd("build", "zero")
             /\ HasCmd("exists", "yes")
             /\ HasCmd("copy", "copied")
       /\ ~HasCmd("build", "zero") =>
             ~HasOp("exists") /\ ~HasOp("copy") /\ retval = "False"
       /\ HasCmd("exists", "no") =>
             ~HasOp("copy") /\ retval = "False" /\ StageSt("build") = "failed"
       /\ ~HasCmd("copy", "copied") => out = pre.out

\* The command exited zero, the declared path is absent, a file of the same
\* name lies elsewhere in the tree, and the build failed.
FallbackSuccessWitness ==
    /\ FallbackRan
    /\ HasCmd("build", "zero")
    /\ HasCmd("exists", "no")
    /\ art[cur] = {"stray"}
    /\ retval = "False"

RECURSIVE Dedup(_)
\* The distinct elements of a sequence in order of first occurrence.
Dedup(l) ==
    IF l = <<>> THEN <<>>
    ELSE LET d == Dedup(SubSeq(l, 1, Len(l) - 1)) IN
         IF \E i \in 1..Len(d) : d[i] = l[Len(l)] THEN d
         ELSE Append(d, l[Len(l)])

\* Index of the last run of name k.
LastRun(k) == CHOOSE i \in 1..Len(runs) :
                 runs[i].name = k /\ \A j \in (i + 1)..Len(runs) : runs[j].name # k

\* C9 as stated: update_all(tools=L) returns one result per element of L,
\* in request order, each the outcome of that element's own run.
OneResultPerElement ==
    (pc = "returned" /\ req.given /\ req.list # <<>>) =>
       /\ Len(results) = Len(req.list)
       /\ \A i \in 1..Len(results) :
             results[i].name = req.list[i] /\ results[i].val = runs[i].ret

\* C9: the dict update_all(tools=L) returns for a non-empty L has one entry
\* per distinct name of L, in order of first occurrence, holding the outcome
\* of the last run of that name, every element of L having been run in
\* request order; with no list it has one entry per catalog tool in catalog
\* order.
OneResultPerDistinctName ==
    pc = "returned" =>
       /\ (req.given /\ req.list # <<>>) => todo = req.list
       /\ ~req.given => todo = Keys(registry)
       /\ Len(runs) = Len(todo)
       /\ \A i \in 1..Len(runs) : runs[i].name = todo[i]
       /\ Keys(results) = Dedup(todo)
       /\ \A i \in 1..Len(results) :
             results[i].val = runs[LastRun(results[i].name)].ret

\* A list naming one tool twice came back with a single entry although the
\* two runs ended differently.
OneResultPerDistinctNameWitness ==
    /\ pc = "returned"
    /\ req.given /\ Len(req.list) = 2 /\ req.list[1] = req.list[2]
    /\ runs[1].ret # runs[2].ret
    /\ Len(results) = 1

\* A copy of the current call failed.
CopyFailed == \E i \in 1..Len(cmds) : cmds[i].op = "copy" /\ cmds[i].rc # "copied"

\* C10: a failed copy of the artifact, a vanished source included, ends the
\* run as a publish failure that update_tool returns as False on the
\* backend path and on the direct-invocation path alike.
CopyFailureReturnsFalse ==
    CopyFailed =>
       /\ StageSt("publish") = "failed"
       /\ retval = "False"
       /\ pc = "loop"

----------------------------------------------------------------------------
\* C11: whenever update_tool returns True, a copy into output_dir completed
\* during that call, the file lies in output_dir under the tool's artifact
\* name, and its bytes are those of the artifact this call built.
SuccessMeansCopied ==
    retval = "True" =>
       /\ HasCmd("copy", "copied")
       /\ cur \in out
       /\ outc[cur] = CurIndex
       /\ "declared" \in art[cur] /\ artc[cur] = outc[cur]

\* The second call for a name succeeded and replaced the file the first
\* call had put into output_dir.
SuccessMeansCopiedWitness ==
    /\ retval = "True"
    /\ CurIndex = 2
    /\ cur \in pre.out
    /\ outc[cur] = 2

----------------------------------------------------------------------------
\* The build command of the current call was run by a backend.
BackendRan == \E i \in 1..Len(cmds) : cmds[i].op = "build" /\ cmds[i].arg = "builder"

----------------------------------------------------------------------------
\* A match as a path relative to the working copy.
Rel(p) == SubSeq(p, Len(tool_path) + 2, Len(p))

Segments(r) == 1 + Cardinality({i \in 1..Len(r) : r[i] = "/"})

\* The path below the working copy names a release configuration.
IsRelease(r) == Contains(LowerStr(r), ReleaseMarker)

\* Lexicographic order of two strings by code point.
LexLess(a, b) ==
    \E i \in 1..(Len(a) + 1) :
       /\ \A j \in 1..(i - 1) : j <= Len(b) /\ a[j] = b[j]
       /\ i - 1 <= Len(b)
       /\ IF i > Len(a) THEN Len(b) >= i
          ELSE Len(b) >= i /\ Ord(a[i]) < Ord(b[i])

\* C13 as stated: when the listing holds a candidate whose path below the
\* working copy contains the release marker, the chosen artifact is such a
\* candidate, whatever the lengths and whatever the build root is called.
ReleaseCandidateWins ==
    (artifact.called /\ \E i \in 1..Len(matches) : IsRelease(Rel(matches[i])))
    => IsRelease(Rel(artifact.path))

Preferred(p, q) ==
    LET mp == Contains(LowerStr(p), ReleaseMarker)
        mq == Contains(LowerStr(q), ReleaseMarker)
    IN \/ mp /\ ~mq
       \/ mp = mq /\ Len(p) < Len(q)

----------------------------------------------------------------------------
\* The last call asked the factory for the builder of an identifier.
Selected == made.fn \in {"get_for_tool", "get_builder"}

\* C15: an identifier that spells msbuild (dotnet) in any letter case
\* selects the class registered for MSBUILD (DOTNET); every other
\* identifier, the empty one included, yields None.
CaseInsensitiveSelection ==
    Selected =>
       /\ made.arg \in {"msbuild", "MSBUILD", "MsBuild", "MSBuild"}
             => made.result = builders["MSBUILD"]
       /\ made.arg \in {"dotnet", "DOTNET", "DotNet"}
             => made.result = builders["DOTNET"]
       /\ made.arg \notin {"msbuild", "MSBUILD", "MsBuild", "MSBuild",
                            "dotnet", "DOTNET", "DotNet"}
             => made.result = "None"

CaseInsensitiveSelectionWitness ==
    /\ made.fn = "get_for_tool"
    /\ made.arg = "MsBuild"
    /\ reglog = <<>>
    /\ made.result = "MSBuildBuilder"

\* BuildSystem member values: the identifier of each kind.
BuildSystemValue ==
    [k \in BuildSystem |->
        CASE k = "MSBUILD" -> "msbuild"
          [] k = "DOTNET" -> "dotnet"
          [] k = "CMAKE" -> "cmake"
          [] k = "MAKE" -> "make"
          [] k = "CUSTOM" -> "custom"]

\* C16 as stated: once a class is registered for a kind without built-in
\* backend, asking for that kind's identifier returns the registered class.
RegisteredKindIsSelected ==
    \A k \in {"CMAKE", "MAKE", "CUSTOM"} :
       (Selected /\ made.arg = BuildSystemValue[k] /\ builders[k] # "None")
       => made.result = builders[k]

\* The class the register calls so far leave for kind k.
LastRegistered(k) ==
    IF \E i \in 1..Len(reglog) : reglog[i].kind = k
    THEN reglog[CHOOSE i \in 1..Len(reglog) :
                   /\ reglog[i].kind = k
                   /\ \A j \in (i + 1)..Len(reglog) : reglog[j].kind # k].class
    ELSE BuiltinBuilders[k]

\* C17: create(k) returns the class of the last register call for k, of
\* the built-in table when there was none, and None exactly when k has
\* neither.
LastRegistrationWins ==
    made.fn = "create" =>
       /\ made.result = LastRegistered(made.arg)
       /\ made.result = "None" <=>
             /\ BuiltinBuilders[made.arg] = "None"
             /\ \A i \in 1..Len(reglog) : reglog[i].kind # made.arg

\* Two registrations over a built-in backend: the second one is created.
LastRegistrationWinsWitness ==
    /\ made.fn = "create"
    /\ made.arg = "MSBUILD"
    /\ Len(reglog) = 2
    /\ reglog[1] = [kind |-> "MSBUILD", class |-> "DotNetBuilder"]
    /\ reglog[2] = [kind |-> "MSBUILD", class |-> "CustomBuilder"]
    /\ made.result = "CustomBuilder"

----------------------------------------------------------------------------
\* C18: the dependency check is answered by one search-path lookup of the
\* required executable and starts nothing: with an empty requirement it is
\* true without any lookup, otherwise it is true exactly when the lookup
\* resolved the executable; while it is the last stage the only logged action
\* is that lookup.
DependencyAnswer ==
    StageSt("dependency") # "none" =>
       /\ Cfg.requires = "" =>
             /\ StageSt("dependency") = "ok"
             /\ \A i \in 1..Len(cmds) :
                   cmds[i].op = "which" => \E j \in 1..(i - 1) : cmds[j].op # "which"
       /\ Cfg.requires # "" =>
             /\ cmds[1] \in {Cmd("which", Cfg.requires, "found"),
                              Cmd("which", Cfg.requires, "absent")}
             /\ StageSt("dependency") = "ok" <=> cmds[1].rc = "found"
       /\ Len(stages) = 1 => \A i \in 1..Len(cmds) : cmds[i].op = "which"

\* A tool without requirement passed the check unprobed and went on to sync.
DependencyAnswerWitness ==
    /\ Cfg.found
    /\ Cfg.requires = ""
    /\ StageSt("dependency") = "ok"
    /\ cmds # <<>>
    /\ cmds[1].op \in {"clone", "is_repo"}

----------------------------------------------------------------------------
\* C19 as stated: whichever path starts it, the build command of a call
\* gets the environment of the host overlaid with the env_vars of the tool.
BuildEnvOverlaid ==
    HasOp("build") => buildenv = env_vars(cur) @@ HostEnv

----------------------------------------------------------------------------
\* C20 as stated: after an abrupt termination, with the remote healthy and
\* the caller retrying, a sync eventually succeeds and leaves the working
\* copy at the revision of the remote.
RecoversAfterAbruptTermination ==
    recovering ~> (rpc = "ok" /\ repo.tree = "remote")

\* The git command op was issued in the current sync run.
Issued(op) == \E i \in 1..Len(gitlog) : gitlog[i] = op

\* C21: once a sync has succeeded and the remote has not moved since, every
\* further sync of that working copy succeeds and ends with the same tree,
\* whatever was edited or left in the working copy in between.
SyncIdempotent ==
    since.valid => /\ rpc # "failed"
                   /\ rpc = "ok" => repo = since.repo

\* A repeated sync went through fetch, reset and clean of a working copy that
\* had been edited and held build products, and ended as the first one did.
SyncIdempotentWitness ==
    /\ since.valid
    /\ rpc = "ok"
    /\ Issued("clean")
    /\ before.gitdir = "ok"
    /\ before.tree = "dirty"
    /\ before.untracked
    /\ repo = since.repo

DestructiveStepsOnlyOnOwnRepository ==
    rpc # "start" =>
        ((rpc = "fetch" \/ Issued("fetch")) <=> before.gitdir = "ok")

\* The external commands of one update_tool run.
ExternalOps == {"clone", "fetch", "reset", "clean", "build"}

\* How often op was started in the current call.
Started(op) == Cardinality({i \in 1..Len(cmds) : cmds[i].op = op})

\* The command did not succeed: git by its exit code, the build likewise.
CmdFailed(c) ==
    /\ c.op \in ExternalOps
    /\ IF c.op = "build" THEN ~CommandOk(c.rc) ELSE ~GitSuccess(c.rc)

\* C23: nothing is retried: in one update_tool run each of clone, fetch,
\* reset, clean and the build command is started at most once, nothing at
\* all is issued after a command that failed, and update_all makes exactly
\* one update_tool call per element of its work list, in order, whatever
\* the outcomes were.
NothingRetried ==
    /\ \A op \in ExternalOps : Started(op) <= 1
    /\ \A i \in 1..Len(cmds) : CmdFailed(cmds[i]) => i = Len(cmds)
    /\ Len(runs) <= Len(todo)
    /\ \A i \in 1..Len(runs) : runs[i].name = todo[i]
    /\ Len(runs) + Len(queue) + (IF pc \in {"idle", "loop", "returned", "raised"}
                                 THEN 0 ELSE 1) = Len(todo)

\* A batch of two tools has returned: the first tool failed and was not run
\* again, the second failed at its fetch, which was its last command.
NothingRetriedWitness ==
    /\ pc = "returned"
    /\ Len(runs) = 2
    /\ runs[1].name # runs[2].name
    /\ runs[1].ret = "False"
    /\ cmds # <<>>
    /\ cmds[Len(cmds)].op = "fetch"
    /\ CmdFailed(cmds[Len(cmds)])

\* The first stage of the current call that failed, "none" if there is none.
FirstFailed ==
    IF \E i \in 1..Len(stages) : stages[i].st = "failed"
    THEN stages[CHOOSE i \in 1..Len(stages) :
                  /\ stages[i].st = "failed"
                  /\ \A j \in 1..(i - 1) : stages[j].st # "failed"].stage
    ELSE "none"

BackendBuilt == \E i \in 1..Len(cmds) : cmds[i].op = "build" /\ cmds[i].arg = "builder"

\* A look for an executable on the search path came back empty in the
\* current call; after a passed dependency check that is a look by
\* build_tool or by the backend.
ProbeAbsent == \E i \in 1..Len(cmds) : cmds[i].op = "which" /\ cmds[i].rc = "absent"

\* C28 as stated: the build command is run directly only when no backend
\* resolves for the requirement identifier of the tool.
FallbackOnlyWithoutBackend ==
    FallbackRan => get_builder(Cfg.requires) = "None"

\* C28: the build command is run directly when no backend resolves and also
\* when a backend resolves whose executable build_tool does not find; the
\* backend builds only after build_tool found its executable, and the build
\* stage fails without any build command only when the executable was there
\* for build_tool and gone for the backend.
FallbackWithoutUsableBackend ==
    /\ FallbackRan => get_builder(Cfg.requires) = "None" \/ ProbeAbsent
    /\ BackendBuilt => get_builder(Cfg.requires) # "None" /\ ~ProbeAbsent
    /\ (pc = "run_cmd" /\ get_builder(Cfg.requires) # "None") => ProbeAbsent
    /\ (Ended /\ StageSt("build") = "failed" /\ ~HasOp("build")) =>
          /\ get_builder(Cfg.requires) # "None"
          /\ cmds[Len(cmds)] = Cmd("which", executable(get_builder(Cfg.requires)), "absent")
          /\ cmds[Len(cmds) - 1] = Cmd("which", executable(get_builder(Cfg.requires)), "found")

\* A backend resolved, build_tool did not find its executable, and the build
\* command was run directly and the run succeeded.
FallbackWithoutUsableBackendWitness ==
    /\ retval = "True"
    /\ FallbackRan
    /\ get_builder(Cfg.requires) # "None"
    /\ ProbeAbsent

\* Every tool of the work list whose last run returned True.
AllSucceeded ==
    \A i \in 1..Len(todo) : runs[LastRun(todo[i])].ret = "True"

\* C24: run_update returns 0 exactly when every result that update_all
\* returned is a success, and 1 when the result of at least one tool of the
\* work list is a failure; a batch that ends by an exception returns nothing.
ExitCodeReflectsResults ==
    /\ (pc = "returned" /\ Validated(registry, req)) =>
          /\ exitcode \in {"0", "1"}
          /\ exitcode = "0" <=> \A i \in 1..Len(results) : results[i].val = "True"
          /\ exitcode = "0" <=> AllSucceeded
          /\ KeySet(results) = {todo[i] : i \in 1..Len(todo)}
    /\ pc # "returned" => exitcode = "none"

\* A batch of two tools returned 1: one tool succeeded and one failed.
ExitCodeReflectsResultsWitness ==
    /\ pc = "returned"
    /\ exitcode = "1"
    /\ Len(results) = 2
    /\ \E i, j \in 1..2 : results[i].val = "True" /\ results[j].val = "False"

\* C27: when a requested name is not in the registry of built-in and
\* configured tools, run_update returns 1 and no tool, known or not, is
\* looked up, synced, built or published: the file system is as it was.
UnknownNameStopsBatch ==
    (pc # "idle" /\ ~Validated(registry, req)) =>
        /\ pc = "returned"
        /\ exitcode = "1"
        /\ runs = <<>>
        /\ results = <<>>
        /\ cmds = <<>>
        /\ stages = <<>>
        /\ todo = <<>>
        /\ [wc |-> wc, art |-> art, out |-> out, outc |-> outc] = pre

\* A known tool was requested ahead of an unknown name: 1 was returned and
\* the known tool was not run.
UnknownNameStopsBatchWitness ==
    /\ pc = "returned"
    /\ exitcode = "1"
    /\ req.given
    /\ Len(req.list) = 2
    /\ req.list[1] \in KeySet(registry)
    /\ req.list[2] \notin KeySet(registry)
    /\ runs = <<>>

\* C26: the diagnostic output that the failure outcome of a build command
\* carries is at most the last TailLimit lines of what was captured.
DiagnosticsAreBoundedTail ==
    diag.by # "none" =>
        /\ Len(diag.lines) <= TailLimit
        /\ diag.lines \in {OwnMessage, <<>>, LastLines(captured, TailLimit)}

\* C29: instances that were given different roots do not affect each
\* other: neither fails, neither builds from files the other rewrites, each
\* working copy holds at most the artifact of its own instance and each
\* output directory receives that artifact; nothing but the roots keeps
\* instances apart, as the race under a shared root shows.
DisjointRootsIsolate ==
    (\A i, j \in Insts : i # j => inst[i].root # inst[j].root) =>
        \A i \in Insts :
            /\ inst[i].ret \in {"none", "ok"}
            /\ ~inst[i].disturbed
            /\ tree[inst[i].root].artifact.by \in {"none", "old", i}
            /\ inst[i].ret = "ok" =>
                  outdir[inst[i].root] = [by |-> i, disturbed |-> FALSE]

\* Under a shared root an instance built the artifact, the other instance
\* cleaned the working copy before the copy, and the first one failed to
\* publish although every command of its own succeeded.
DisjointRootsIsolateWitness ==
    \E i, j \in Insts :
        /\ i # j
        /\ inst[i].root = inst[j].root
        /\ inst[i].ret = "publish"
        /\ inst[j].pc \in {"build", "building", "verify", "copy", "done"}

\* Under a shared root an instance published an artifact built while the
\* other instance was rewriting the working copy.
PublishedFromRewrittenTree ==
    \E i, j \in Insts :
        /\ i # j
        /\ inst[i].root = inst[j].root
        /\ inst[i].ret = "ok"
        /\ outdir[inst[i].root].disturbed

\* C31: update_all(tools=[]) works like update_all(): its work list is the
\* registry in registration order and it returns one result per tool of
\* the registry, in that order.
EmptyRequestMeansAllTools ==
    (pc # "idle" /\ req.given /\ req.list = <<>>) =>
        /\ todo = list_tools(registry)
        /\ pc = "returned" =>
              /\ Keys(results) = list_tools(registry)
              /\ [i \in 1..Len(runs) |-> runs[i].name] = list_tools(registry)

\* update_all(tools=[]) returned with the results of two registered tools.
EmptyRequestMeansAllToolsWitness ==
    /\ pc = "returned"
    /\ req.given
    /\ req.list = <<>>
    /\ Len(registry) = 2
    /\ Len(results) = 2

\* An event of the given severity was logged in the current call.
Logged(level) == \E i \in 1..Len(events) : events[i] = level

BuiltToolsAreListed ==
    /\ (retval = "True" /\ cur \in KeySet(registry)) =>
          /\ \E i \in 1..Len(list_built_tools) : list_built_tools[i] = cur
          /\ get_tool_info(cur).built
          /\ get_tool_info(cur).built_path = dest_path(cur)
    /\ \A n \in Names :
          (\E i \in 1..Len(list_built_tools) : list_built_tools[i] = n) <=>
             (n \in KeySet(registry) /\ <<PathName(Output[n])>> \in OutputFiles)

\* The second tool of a batch was published while the first one failed:
\* only the second is listed as built.
BuiltToolsAreListedWitness ==
    /\ retval = "True"
    /\ Len(runs) = 2
    /\ runs[1].ret = "False"
    /\ cur \in KeySet(registry)
    /\ list_built_tools = <<cur>>
    /\ Len(registry) = 2

\* C34: an update_tool run that fails before the publish stage leaves the
\* output directory as it found it: no file of any tool there is created,
\* rewritten or removed, no copy is attempted, and every tool that was
\* listed as built before the run is listed after it.
FailureBeforePublishKeepsOutput ==
    (retval = "False" /\ runs[Len(runs)].stage # "publish") =>
        /\ out = pre.out
        /\ outc = pre.outc
        /\ ~HasOp("copy")
        /\ \A n \in pre.out : n \in KeySet(registry) =>
              \E i \in 1..Len(list_built_tools) : list_built_tools[i] = n

\* A tool was published by the first run of a batch; its second run failed
\* at the build and the published artifact is still that of the first run.
FailureBeforePublishKeepsOutputWitness ==
    /\ retval = "False"
    /\ Len(runs) = 2
    /\ runs[1].ret = "True"
    /\ runs[1].name = cur
    /\ runs[2].stage = "build"
    /\ cur \in out
    /\ outc[cur] = 1
    /\ list_built_tools # <<>>

----------------------------------------------------------------------------
(* ToolRegistry: properties *)

\* The registry the last call was made on, as it is now.
RegAfter == regs[regcall.self]

\* C35: unregister(name) returns True exactly when name was registered;
\* it then leaves name out of the registry and every other entry, with its
\* position among the others, as it was; for a name that was not registered
\* it returns False and leaves the registry as it was.
UnregisterRemovesExactlyTheName ==
    regcall.fn = "unregister" =>
        /\ regcall.ret = "True" <=> contains(regcall.before, regcall.name)
        /\ regcall.ret = "True" =>
              /\ ~contains(RegAfter, regcall.name)
              /\ KeySet(RegAfter) = KeySet(regcall.before) \ {regcall.name}
              /\ \A m \in KeySet(RegAfter) :
                     get(RegAfter, m) = get(regcall.before, m)
              /\ \A m1, m2 \in KeySet(RegAfter) :
                     IndexOf(regcall.before, m1) < IndexOf(regcall.before, m2)
                         => IndexOf(RegAfter, m1) < IndexOf(RegAfter, m2)
        /\ regcall.ret = "False" => RegAfter = regcall.before

\* An unregister of the middle one of three registered names.
UnregisterRemovesExactlyTheNameWitness ==
    /\ regcall.fn = "unregister"
    /\ regcall.ret = "True"
    /\ Len(regcall.before) = 3
    /\ IndexOf(regcall.before, regcall.name) = 2
    /\ Len(RegAfter) = 2

\* The names a registry yields by each of its views.
Listed(d) == {list_tools(d)[i] : i \in 1..Len(list_tools(d))}

Iterated(d) == {iter(d)[i] : i \in 1..Len(iter(d))}

Members(d) == {n \in Names : contains(d, n)}

\* C36: after any sequence of register, unregister and merge every entry of
\* a registry carries the name it is registered under, and len, list_tools,
\* iteration and membership describe the same set of names, none twice.
RegistryViewsAgree ==
    \A i \in DOMAIN regs :
        /\ \A n \in Members(regs[i]) : get(regs[i], n).name = n
        /\ Listed(regs[i]) = Members(regs[i])
        /\ Iterated(regs[i]) = Members(regs[i])
        /\ len(regs[i]) = Cardinality(Members(regs[i]))
        /\ Len(list_tools(regs[i])) = len(regs[i])
        /\ Len(iter(regs[i])) = len(regs[i])

\* A merge has replaced an entry that a register with a differently named
\* config dict had made.
RegistryViewsAgreeWitness ==
    /\ regcall.fn = "merge"
    /\ regcall.self # regcall.name
    /\ \E n \in KeySet(regcall.before) \cap KeySet(RegAfter) :
           get(regcall.before, n) # get(RegAfter, n)
    /\ Len(RegAfter) = 3

----------------------------------------------------------------------------
(* winbins.logging: properties *)

\* The last call printed an event of the given severity.
Emitted(level) == \E i \in 1..Len(logcall.emitted) : logcall.emitted[i] = level

\* get_logger hands out one instance until set_logger installs another, and
\* a call that finds an instance installed leaves every instance as it was.
GetLoggerIsSingleton ==
    /\ Cardinality(gets) <= 1
    /\ logcall.fn \in {"get_logger", "WinToolsUpdater"} =>
          /\ logcall.ret = default_logger
          /\ logcall.ret \in gets
          /\ logcall.ret <= Len(logcall.before) => loggers = logcall.before

\* The logger of the updater.
UpdaterLogger == loggers[updater.logger]

\* C37 as stated: get_logger is a singleton whose later verbose arguments
\* are ignored, and an updater built without a logger while a default logger
\* was installed emits DEBUG events exactly when that logger is verbose,
\* whatever verbose the updater was given.
DebugFollowsDefaultLoggerOnly ==
    /\ GetLoggerIsSingleton
    /\ (logcall.fn = "run_cmd" /\ updater.installed) =>
           (Emitted("DEBUG") <=> UpdaterLogger.verbose)

\* C37: get_logger is a singleton whose later verbose arguments are ignored;
\* an updater built without a logger emits the DEBUG event of run_cmd exactly
\* when both its own verbose flag and the verbose flag of the default logger
\* it got are set, and a DEBUG event handed to its log method exactly when
\* that logger is verbose.
DebugNeedsBothVerboseFlags ==
    /\ GetLoggerIsSingleton
    /\ logcall.fn = "run_cmd" =>
           (Emitted("DEBUG") <=> (updater.verbose /\ UpdaterLogger.verbose))
    /\ (logcall.fn = "log" /\ logcall.arg = "DEBUG") =>
           (Emitted("DEBUG") <=> UpdaterLogger.verbose)

\* A quiet updater that got a verbose default logger has run a command and
\* printed no DEBUG event.
DebugNeedsBothVerboseFlagsWitness ==
    /\ logcall.fn = "run_cmd"
    /\ updater.installed
    /\ ~updater.verbose
    /\ UpdaterLogger.verbose
    /\ ~Emitted("DEBUG")

----------------------------------------------------------------------------
(* NameGenerator: properties *)

\* Every name the generator can draw has been handed out.
Exhausted == Drawable \subseteq used_names

\* No call has returned a name that was handed out since the last reset.
NeverReusesName == fresh

\* C38: every call to generate() returns, and with a name that was not
\* returned before since construction or the last reset, whatever was handed
\* out before, also when every name of the allowed lengths was.
GenerateReturnsFreshName ==
    /\ []fresh
    /\ (gpc = "while") ~> (gpc = "idle")

\* A call is never in progress with every drawable name used.
ExhaustedNeverInLoop == ~(Exhausted /\ gpc = "while")

\* A call made while a drawable name is still unused returns.
GenerateReturnsWhileNamesRemain ==
    (gpc = "while" /\ ~Exhausted) ~> (gpc = "idle")

====
